---- MODULE Spec2Model ----
(***************************************************************************)
(* The two-tier caching engine of src/src/core/cache.py: TTLCache (memory  *)
(* tier), FileCache (disk tier) and CacheManager (key derivation, tier     *)
(* selection, lookup).                                                     *)
(*                                                                         *)
(* Time is the wall clock read by time.time() / datetime.now(), counted in *)
(* seconds.  A handler that reads the clock several times may see it       *)
(* advance between two reads.  The clock only shows the instants of the    *)
(* set `instants`, chosen around the expiry boundaries.                    *)
(*                                                                         *)
(* Strings the code manipulates (query texts, JSON documents) are          *)
(* sequences of one-character or one-token strings.  hashlib.md5 is a      *)
(* digest the model cannot compute: it is taken to be collision-free on    *)
(* the inputs of the model and written as a tagged copy of its input.      *)
(***************************************************************************)
EXTENDS Integers, Sequences, FiniteSets, TLC

VARIABLES
    now,            \* the wall clock, in seconds
    instants,       \* the instants the clock shows in this run
    memory_cache,   \* the TTLCache object: ttl_seconds, max_size, cache, access_times
    file_cache,     \* the FileCache object: ttl_hours, metadata
    cache_dir,      \* the cache directory: payload files and cache_metadata.json
    set_time,       \* history: for each key the memory tier holds, the instant of its latest set
    disk_set,       \* history of the disk tier on its own: for each key set and not deleted
                    \* or cleared since, the value and the instant of its latest set
    manager,        \* whether the module's global CACHE_MANAGER is bound
    db_connector,   \* the DatabaseConnector object: connection, _is_connected,
                    \* _connection_attempts
    db_call,        \* the latest call on the connector: its attempts and its outcome
    last            \* the latest operation, what it returned, and for a get what
                    \* the operation just before it was

vars ==
    <<now, instants, memory_cache, file_cache, cache_dir, set_time, disk_set, manager,
      db_connector, db_call, last>>

----------------------------------------------------------------------------
(* Bounds of the model and constants of the program *)

\* TTLCache instances under test are built with max_size in 1..MaxCapacity.
MaxCapacity == 2

\* A caller appends to a list it shares with the cache up to this length.
MaxListLen == 3

\* The arguments given to the decorators: cached_query(ttl_seconds=...),
\* cached_dataframe(ttl_hours=...), both shorter than the Manager's tiers' TTL.
DecoratorTtlSeconds == 60
DecoratorTtlHours == 1

\* TTLCache.__init__'s default ttl_seconds.
DEFAULT_TTL_SECONDS == 3600

\* CacheManager.__init__: TTLCache(ttl_seconds=3600, max_size=500)
MANAGER_TTL_SECONDS == 3600
MANAGER_MAX_SIZE == 500
\* CacheManager.__init__: FileCache(cache_dir="./cache", ttl_hours=24)
MANAGER_TTL_HOURS == 24
\* cache_query_result: len(result) < 100
SMALL_RESULT_LIMIT == 100
\* timedelta(hours=1) in seconds
SECONDS_PER_HOUR == 3600
\* FileCache.__init__'s default ttl_hours.
DEFAULT_TTL_HOURS == 24
\* DatabaseConnector.__init__: self.max_retries = 3
CONNECT_MAX_RETRIES == 3
\* execute_query_with_retry's default max_retries
QUERY_MAX_RETRIES == 2
\* execute_query: error_code == 2003, a compilation error
COMPILATION_ERRNO == 2003

----------------------------------------------------------------------------
(* Values *)

\* Python's None, as a cached value and as the result of a miss.
None == [kind |-> "none", len |-> 0]

\* A list result with n rows; a DataFrame result.
ListOf(n) == [kind |-> "list", len |-> n]
Frame == [kind |-> "frame", len |-> 3]

\* An object pickle cannot serialize (a lambda, an open connection).
Unpicklable == [kind |-> "function", len |-> 0]

NoKey == <<>>

\* Keys used directly on a tier.
TierKeys == {<<"a">>, <<"b">>, <<"c">>}

\* Values stored directly in the memory tier.
TierValues == {ListOf(1), ListOf(2)}

----------------------------------------------------------------------------
(* The clock *)

Min(S) == CHOOSE x \in S : \A y \in S : x <= y

\* The instant the clock shows next (t itself at the end of the run).
NextInstant(t) ==
    LET after == {u \in instants : u > t}
    IN  IF after = {} THEN t ELSE Min(after)

\* The n clock readings of one handler that starts at `now`: the clock
\* advances to the next instant between two of the readings, or not at all.
Readings(n) ==
    {[i \in 1 .. n |-> IF i <= k THEN now ELSE NextInstant(now)] : k \in 1 .. n}

----------------------------------------------------------------------------
(* TTLCache: the memory tier.  self is the object:                         *)
(*   ttl_seconds, max_size,                                                *)
(*   cache: key -> [value, timestamp]  (a function on the keys held),      *)
(*   access_times: the _access_times dict, in insertion order, as a        *)
(*   sequence of [key, time].                                              *)

TTLCache_init(ttl, size) ==
    [ttl_seconds |-> ttl, max_size |-> size, cache |-> <<>>, access_times |-> <<>>]

\* dict.pop(key, None) and dict[key] = value on a function
DictPop(d, keys) == [k \in DOMAIN d \ keys |-> d[k]]
DictPut(d, key, v) == [k \in DOMAIN d \cup {key} |-> IF k = key THEN v ELSE d[k]]

\* the same on the insertion-ordered _access_times
AccessKeys(a) == {a[i].key : i \in DOMAIN a}
AccessPop(a, keys) == SelectSeq(a, LAMBDA r : r.key \notin keys)
AccessPut(a, key, t) ==
    IF key \in AccessKeys(a)
    THEN [i \in DOMAIN a |-> IF a[i].key = key THEN [key |-> key, time |-> t] ELSE a[i]]
    ELSE Append(a, [key |-> key, time |-> t])

\* an expiry test that would take an entry of age exactly TTL for expired
_is_expired_ge(self, key, t) ==
    IF key \notin DOMAIN self.cache THEN TRUE
    ELSE (t - self.cache[key].timestamp) >= self.ttl_seconds

\* an expiry test that would take no held entry for expired
_is_expired_never(self, key, t) == key \notin DOMAIN self.cache

\* TTLCache._is_expired, the clock reading t
_is_expired(self, key, t) ==
    IF key \notin DOMAIN self.cache THEN TRUE
    ELSE (t - self.cache[key].timestamp) > self.ttl_seconds

\* the expired_keys of _evict_expired at current_time
ExpiredKeys(self, current_time) ==
    {k \in DOMAIN self.cache :
        (current_time - self.cache[k].timestamp) > self.ttl_seconds}

\* a sweep that would drop the entries and keep their access-time records
_evict_expired_entries_only(self, current_time) ==
    [self EXCEPT !.cache = DictPop(@, ExpiredKeys(self, current_time))]

\* TTLCache._evict_expired
_evict_expired(self, current_time) ==
    LET expired_keys == ExpiredKeys(self, current_time)
    IN  [self EXCEPT !.cache = DictPop(@, expired_keys),
                     !.access_times = AccessPop(@, expired_keys)]

\* sorted(items, key=time): a stable sort, ties stay in dict order
SortedInsert(s, r) ==
    LET n == Cardinality({i \in DOMAIN s : s[i].time <= r.time})
    IN  SubSeq(s, 1, n) \o <<r>> \o SubSeq(s, n + 1, Len(s))
RECURSIVE SortedByTime(_)
SortedByTime(a) ==
    IF a = <<>> THEN <<>>
    ELSE SortedInsert(SortedByTime(SubSeq(a, 1, Len(a) - 1)), a[Len(a)])

\* an eviction that would remove the most recently accessed entries
LruVictimsNewest(self) ==
    IF Cardinality(DOMAIN self.cache) <= self.max_size THEN {}
    ELSE LET sorted_keys == SortedByTime(self.access_times)
             num_to_remove == Cardinality(DOMAIN self.cache) - self.max_size + 1
         IN  {sorted_keys[i].key :
                i \in {j \in DOMAIN sorted_keys : j > Len(sorted_keys) - num_to_remove}}

\* the keys _evict_lru removes: sorted_keys[:num_to_remove]
LruVictims(self) ==
    IF Cardinality(DOMAIN self.cache) <= self.max_size THEN {}
    ELSE LET sorted_keys == SortedByTime(self.access_times)
             num_to_remove == Cardinality(DOMAIN self.cache) - self.max_size + 1
         IN  {sorted_keys[i].key : i \in {j \in DOMAIN sorted_keys : j <= num_to_remove}}

\* TTLCache._evict_lru
_evict_lru(self) ==
    LET victims == LruVictims(self)
    IN  [self EXCEPT !.cache = DictPop(@, victims),
                     !.access_times = AccessPop(@, victims)]

\* a get whose hit would renew the entry's timestamp (a sliding TTL)
TTLCache_get_sliding(self, key, t1, t2, t3) ==
    LET swept == _evict_expired(self, t1)
    IN  IF key \in DOMAIN swept.cache /\ ~_is_expired(swept, key, t2)
        THEN [self |-> [swept EXCEPT !.access_times = AccessPut(@, key, t3),
                                     !.cache[key].timestamp = t3],
              ret |-> swept.cache[key].value, hit |-> TRUE]
        ELSE [self |-> swept, ret |-> None, hit |-> FALSE]

\* a get that would look its own key up without sweeping the table first
TTLCache_get_unswept(self, key, t1, t2, t3) ==
    IF key \in DOMAIN self.cache /\ ~_is_expired(self, key, t2)
    THEN [self |-> [self EXCEPT !.access_times = AccessPut(@, key, t3)],
          ret |-> self.cache[key].value, hit |-> TRUE]
    ELSE [self |-> self, ret |-> None, hit |-> FALSE]

\* TTLCache.get: the clock read by the sweep (t1), by _is_expired (t2) and
\* for the access time (t3).  Gives the object afterwards and the result.
TTLCache_get(self, key, t1, t2, t3) ==
    LET swept == _evict_expired(self, t1)
    IN  IF key \in DOMAIN swept.cache /\ ~_is_expired(swept, key, t2)
        THEN [self |-> [swept EXCEPT !.access_times = AccessPut(@, key, t3)],
              ret |-> swept.cache[key].value, hit |-> TRUE]
        ELSE [self |-> swept, ret |-> None, hit |-> FALSE]

\* TTLCache.set: the clock read by the sweep (t1), for the timestamp (t2)
\* and for the access time (t3).
TTLCache_set(self, key, value, t1, t2, t3) ==
    LET evicted == _evict_lru(_evict_expired(self, t1))
    IN  [evicted EXCEPT !.cache = DictPut(@, key, [value |-> value, timestamp |-> t2]),
                        !.access_times = AccessPut(@, key, t3)]

\* TTLCache.delete
TTLCache_delete(self, key) ==
    [self EXCEPT !.cache = DictPop(@, {key}), !.access_times = AccessPop(@, {key})]

\* TTLCache.clear
TTLCache_clear(self) == [self EXCEPT !.cache = <<>>, !.access_times = <<>>]

\* TTLCache.stats: the dict it returns (no _hit_count is ever set: the
\* hit_ratio is 0 / 1); the object is left as it is
TTLCache_stats(self, current_time) ==
    [size |-> Cardinality(DOMAIN self.cache),
     max_size |-> self.max_size,
     ttl_seconds |-> self.ttl_seconds,
     expired_entries |-> Cardinality(ExpiredKeys(self, current_time)),
     hit_ratio |-> 0]

----------------------------------------------------------------------------
(* Key derivation.  A text is a sequence of one-character strings; a JSON  *)
(* document or a repr is a sequence of tokens.  An argument value is       *)
(* [t, v]: an int, a str, or an object json cannot serialize (a datetime). *)

IntV(v) == [t |-> "int", v |-> v]
StrV(v) == [t |-> "str", v |-> v]
ObjV(v) == [t |-> "obj", v |-> v]

\* Optional[list]: None, or a list of values
NoParams == [given |-> FALSE, items |-> <<>>]
ParamList(items) == [given |-> TRUE, items |-> items]

Whitespace == {" "}

\* str.strip()
RECURSIVE LStrip(_)
LStrip(s) ==
    IF s # <<>> /\ s[1] \in Whitespace THEN LStrip(SubSeq(s, 2, Len(s))) ELSE s
RECURSIVE RStrip(_)
RStrip(s) ==
    IF s # <<>> /\ s[Len(s)] \in Whitespace THEN RStrip(SubSeq(s, 1, Len(s) - 1)) ELSE s
Strip(s) == RStrip(LStrip(s))

\* `params or []`
ParamsOrEmpty(params) ==
    IF ~params.given \/ params.items = <<>> THEN <<>> ELSE params.items

\* s1 + sep + s2 + ... over a sequence of token sequences
RECURSIVE Join(_, _)
Join(parts, sep) ==
    IF parts = <<>> THEN <<>>
    ELSE IF Len(parts) = 1 THEN parts[1]
    ELSE parts[1] \o sep \o Join(SubSeq(parts, 2, Len(parts)), sep)

\* json.dumps of a value: raises TypeError on an object
JsonSerializable(x) == x.t # "obj"
JsonValue(x) == IF x.t = "int" THEN <<x.v>> ELSE <<"\"", x.v, "\"">>
JsonText(chars) == <<"\"">> \o chars \o <<"\"">>
JsonList(items) ==
    <<"[">> \o Join([i \in DOMAIN items |-> JsonValue(items[i])], <<",">>) \o <<"]">>

\* the order of the dict keys and keyword names the code sorts
NameOrder == <<"args", "column", "func", "kwargs", "params", "query",
               "table", "type", "x", "y">>
NameRank(name) == CHOOSE i \in DOMAIN NameOrder : NameOrder[i] = name

\* sorted(items) of (name, value) pairs with distinct names: by name
SortedInsertByName(s, item) ==
    LET n == Cardinality({i \in DOMAIN s : NameRank(s[i].name) <= NameRank(item.name)})
    IN  SubSeq(s, 1, n) \o <<item>> \o SubSeq(s, n + 1, Len(s))
RECURSIVE SortedByName(_)
SortedByName(items) ==
    IF items = <<>> THEN <<>>
    ELSE SortedInsertByName(SortedByName(SubSeq(items, 1, Len(items) - 1)),
                            items[Len(items)])

\* json.dumps(d, sort_keys=True), d a dict of [name, json] in insertion order
JsonDumpsSortKeys(d) ==
    LET items == SortedByName(d)
    IN  <<"{">>
        \o Join([i \in DOMAIN items |-> JsonText(<<items[i].name>>) \o <<":">> \o items[i].json],
                <<",">>)
        \o <<"}">>

\* hashlib.md5(text.encode()).hexdigest(): a digest, collision-free on the model's inputs
Md5(text) == <<"md5">> \o text

\* the JSON document CacheManager.get_query_cache_key hashes
QueryKeyData(query, params) ==
    JsonDumpsSortKeys(<<[name |-> "query", json |-> JsonText(Strip(query))],
                        [name |-> "params", json |-> JsonList(ParamsOrEmpty(params))],
                        [name |-> "type", json |-> JsonText(<<"query">>)]>>)

\* whether json.dumps raises TypeError in get_query_cache_key
QueryKeyRaises(query, params) ==
    \E i \in DOMAIN ParamsOrEmpty(params) : ~JsonSerializable(ParamsOrEmpty(params)[i])

\* CacheManager.get_query_cache_key (when it does not raise)
get_query_cache_key(query, params) == Md5(QueryKeyData(query, params))

\* the JSON document CacheManager.get_profiling_cache_key hashes
ProfilingKeyData(table_name, column_name) ==
    JsonDumpsSortKeys(<<[name |-> "table", json |-> JsonText(table_name)],
                        [name |-> "column", json |-> JsonText(column_name)],
                        [name |-> "type", json |-> JsonText(<<"profiling">>)]>>)

\* CacheManager.get_profiling_cache_key
get_profiling_cache_key(table_name, column_name) ==
    Md5(ProfilingKeyData(table_name, column_name))

\* repr() of a value, str() of a tuple and of a list of (name, value) tuples
Repr(x) ==
    IF x.t = "int" THEN <<x.v>>
    ELSE IF x.t = "str" THEN <<"'", x.v, "'">>
    ELSE <<"<", x.v, ">">>
StrTuple(args) ==
    IF Len(args) = 1 THEN <<"(">> \o Repr(args[1]) \o <<",", ")">>
    ELSE <<"(">> \o Join([i \in DOMAIN args |-> Repr(args[i])], <<",">>) \o <<")">>
StrItems(items) ==
    <<"[">>
    \o Join([i \in DOMAIN items |->
                <<"(", "'", items[i].name, "'", ",">> \o Repr(items[i].value) \o <<")">>],
            <<",">>)
    \o <<"]">>

\* the keyword arguments taken in the order the call gives them
UnsortedKwargs(kwargs) == kwargs

\* sorted(kwargs.items()) in the wrappers
SortedKwargs(kwargs) == SortedByName(kwargs)

\* the JSON document the wrappers of cached_query and cached_dataframe hash;
\* kwargs is the call's keyword arguments [name, value] in the order given
WrapperKeyData(func, args, kwargs) ==
    JsonDumpsSortKeys(<<[name |-> "func", json |-> JsonText(<<func>>)],
                        [name |-> "args", json |-> JsonText(StrTuple(args))],
                        [name |-> "kwargs", json |-> JsonText(StrItems(SortedKwargs(kwargs)))]>>)

\* cache_key of cached_query.wrapper and cached_dataframe.wrapper
WrapperCacheKey(func, args, kwargs) == Md5(WrapperKeyData(func, args, kwargs))

----------------------------------------------------------------------------
(* FileCache: the disk tier.  self is the object: ttl_hours and metadata,  *)
(* the dict storage key -> [original_key, timestamp, last_accessed]        *)
(* (size_bytes and the caller's tags, which no operation reads back, are   *)
(* left out).  dir is the cache directory: files, storage key -> payload,  *)
(* and metadata_file, the content of cache_metadata.json.  Opening,        *)
(* writing and unlinking files succeed; what the files hold may be wrong.  *)

\* pickle.dump / pickle.load; pickle.dump raises on an object it cannot
\* serialize, and the file open(cache_file, 'wb') created or truncated
\* before it is left without a loadable payload
Picklable(value) == value # Unpicklable
Pickle(value) == [format |-> "pickle", obj |-> value]
Truncated == [format |-> "truncated", obj |-> None]
Readable(payload) == payload.format = "pickle"
Unpickle(payload) == payload.obj

\* datetime.isoformat() and datetime.fromisoformat(); a record read from a
\* damaged cache_metadata.json may hold a text that is no timestamp, or none
IsoFormat(t) == [format |-> "iso", seconds |-> t]
MalformedTimestamp == [format |-> "malformed", seconds |-> 0]
MissingTimestamp == [format |-> "missing", seconds |-> 0]
FromIsoFormat(text) == text.seconds
\* self.metadata[cache_key]['timestamp'] raises KeyError, fromisoformat ValueError
TimestampError(text) ==
    IF text.format = "iso" THEN "none"
    ELSE IF text.format = "missing" THEN "KeyError" ELSE "ValueError"

\* json.dump(self.metadata, f) and json.load(f) on cache_metadata.json
NoMetadataFile == [format |-> "absent", doc |-> <<>>]
JsonDump(metadata) == [format |-> "json", doc |-> metadata]
JsonLoads(file) == file.format = "json"
JsonLoad(file) == file.doc

\* a loader that would start every instance from an empty table
_load_metadata_empty(dir) == <<>>

\* FileCache._load_metadata
_load_metadata(dir) ==
    IF JsonLoads(dir.metadata_file) THEN JsonLoad(dir.metadata_file) ELSE <<>>

\* FileCache.__init__ on the directory dir
FileCache_init(dir, ttl) == [ttl_hours |-> ttl, metadata |-> _load_metadata(dir)]

\* FileCache._save_metadata
_save_metadata(self, dir) == [dir EXCEPT !.metadata_file = JsonDump(self.metadata)]

\* FileCache._get_cache_key
_get_cache_key(key) == Md5(key)

\* the exception FileCache._is_expired raises on cache_key ("none": it returns)
FileCache_is_expired_raises(self, cache_key) ==
    IF cache_key \notin DOMAIN self.metadata THEN "none"
    ELSE TimestampError(self.metadata[cache_key].timestamp)

\* an expiry test that would take an entry of age exactly the TTL for expired
FileCache_is_expired_ge(self, cache_key, t) ==
    IF cache_key \notin DOMAIN self.metadata THEN TRUE
    ELSE t - FromIsoFormat(self.metadata[cache_key].timestamp)
            >= self.ttl_hours * SECONDS_PER_HOUR

\* FileCache._is_expired where it returns, datetime.now() reading t
FileCache_is_expired(self, cache_key, t) ==
    IF cache_key \notin DOMAIN self.metadata THEN TRUE
    ELSE t - FromIsoFormat(self.metadata[cache_key].timestamp)
            > self.ttl_hours * SECONDS_PER_HOUR

\* a get that would let the error of an unreadable payload file through
FileCache_get_unguarded(self, dir, key, t1, t2) ==
    LET cache_key == _get_cache_key(key)
        miss == [self |-> self, dir |-> dir, ret |-> None, exc |-> "none"]
    IN  IF cache_key \notin DOMAIN dir.files THEN miss
        ELSE IF FileCache_is_expired_raises(self, cache_key) # "none"
        THEN [miss EXCEPT !.exc = FileCache_is_expired_raises(self, cache_key)]
        ELSE IF FileCache_is_expired(self, cache_key, t1) THEN miss
        ELSE IF ~Readable(dir.files[cache_key])
        THEN [miss EXCEPT !.exc = "UnpicklingError"]
        ELSE LET touched ==
                    [self EXCEPT !.metadata[cache_key].last_accessed = IsoFormat(t2)]
             IN  [self |-> touched, dir |-> _save_metadata(touched, dir),
                  ret |-> Unpickle(dir.files[cache_key]), exc |-> "none"]

\* FileCache.get: the clock read by _is_expired (t1) and for last_accessed (t2);
\* exc is the exception that reaches the caller ("none": the call returns ret)
FileCache_get(self, dir, key, t1, t2) ==
    LET cache_key == _get_cache_key(key)
        miss == [self |-> self, dir |-> dir, ret |-> None, exc |-> "none"]
    IN  IF cache_key \notin DOMAIN dir.files THEN miss
        ELSE IF FileCache_is_expired_raises(self, cache_key) # "none"
        THEN [miss EXCEPT !.exc = FileCache_is_expired_raises(self, cache_key)]
        ELSE IF FileCache_is_expired(self, cache_key, t1) THEN miss
        ELSE IF ~Readable(dir.files[cache_key]) THEN miss
        ELSE LET touched ==
                    [self EXCEPT !.metadata[cache_key].last_accessed = IsoFormat(t2)]
             IN  [self |-> touched, dir |-> _save_metadata(touched, dir),
                  ret |-> Unpickle(dir.files[cache_key]), exc |-> "none"]

\* a set that would read cache_metadata.json again before adding its record
FileCache_set_reloading(self, dir, key, value, t1, t2) ==
    LET cache_key == _get_cache_key(key)
        recorded ==
            [self EXCEPT !.metadata =
                DictPut(_load_metadata(dir), cache_key,
                        [original_key |-> key, timestamp |-> IsoFormat(t1),
                         last_accessed |-> IsoFormat(t2)])]
    IN  [self |-> recorded,
         dir |-> _save_metadata(recorded,
                                [dir EXCEPT !.files = DictPut(@, cache_key, Pickle(value))]),
         exc |-> "none"]

\* FileCache.set: the clock read for timestamp (t1) and for last_accessed (t2).
\* The file is opened for writing, then pickle.dump runs; when it raises, the
\* except clause logs the error and the record is not written.
FileCache_set(self, dir, key, value, t1, t2) ==
    LET cache_key == _get_cache_key(key)
        opened == [dir EXCEPT !.files = DictPut(@, cache_key, Truncated)]
        written == [dir EXCEPT !.files = DictPut(@, cache_key, Pickle(value))]
        recorded ==
            [self EXCEPT !.metadata =
                DictPut(@, cache_key,
                        [original_key |-> key, timestamp |-> IsoFormat(t1),
                         last_accessed |-> IsoFormat(t2)])]
    IN  IF ~Picklable(value) THEN [self |-> self, dir |-> opened, exc |-> "none"]
        ELSE [self |-> recorded, dir |-> _save_metadata(recorded, written), exc |-> "none"]

\* FileCache.delete
FileCache_delete(self, dir, key) ==
    LET cache_key == _get_cache_key(key)
        unlinked == [dir EXCEPT !.files = DictPop(@, {cache_key})]
        popped == [self EXCEPT !.metadata = DictPop(@, {cache_key})]
    IN  [self |-> popped, dir |-> _save_metadata(popped, unlinked), exc |-> "none"]

\* the storage keys whose record makes _is_expired raise
RaisingKeys(self) ==
    {k \in DOMAIN self.metadata : FileCache_is_expired_raises(self, k) # "none"}

\* FileCache.clear_expired, the scan reading the clock as t.  When a record
\* makes _is_expired raise, the scan stops there: scanned is the set of
\* storage keys the loop over the dict went through before it (their
\* expired payload files are unlinked, no record is popped).
FileCache_clear_expired(self, dir, t, scanned) ==
    LET raising == RaisingKeys(self)
        expired_keys ==
            {k \in DOMAIN self.metadata \ raising : FileCache_is_expired(self, k, t)}
    IN  IF raising # {}
        THEN [self |-> self,
              dir |-> [dir EXCEPT !.files = DictPop(@, expired_keys \cap scanned)],
              exc |-> FileCache_is_expired_raises(self, CHOOSE k \in raising : TRUE)]
        ELSE LET unlinked == [dir EXCEPT !.files = DictPop(@, expired_keys)]
                 popped == [self EXCEPT !.metadata = DictPop(@, expired_keys)]
             IN  [self |-> popped,
                  dir |-> IF expired_keys # {} THEN _save_metadata(popped, unlinked)
                          ELSE unlinked,
                  exc |-> "none"]

\* FileCache.stats at t: entries and expired_entries of the dict it returns
FileCache_stats(self, t) ==
    IF RaisingKeys(self) # {}
    THEN [entries |-> 0, expired_entries |-> 0,
          exc |-> FileCache_is_expired_raises(self, CHOOSE k \in RaisingKeys(self) : TRUE)]
    ELSE [entries |-> Cardinality(DOMAIN self.metadata),
          expired_entries |->
            Cardinality({k \in DOMAIN self.metadata : FileCache_is_expired(self, k, t)}),
          exc |-> "none"]

----------------------------------------------------------------------------
(* CacheManager.  The operations take the two tiers and the directory and  *)
(* give them back; ts is the sequence of the clock readings of the handler *)
(* in the order the code makes them.                                       *)

\* the (query, params) arguments of the Manager's calls: a query, the same
\* with an empty parameter list, the same with whitespace around it, and the
\* same with a parameter json cannot serialize
ManagerCalls ==
    {<<<<"s">>, NoParams>>,
     <<<<"s">>, ParamList(<<>>)>>,
     <<<<" ", "s", " ">>, NoParams>>,
     <<<<"s">>, ParamList(<<ObjV("datetime")>>)>>}

Results == {ListOf(1), ListOf(99), ListOf(100), Frame}

\* get_query_cache_key on the inputs of the model on which it does not raise,
\* derived once
RECURSIVE Tabulate(_)
Tabulate(S) ==
    IF S = {} THEN <<>>
    ELSE LET a == CHOOSE x \in S : TRUE
         IN  (a :> get_query_cache_key(a[1], a[2])) @@ Tabulate(S \ {a})
QueryCacheKeys ==
    Tabulate({x \in ManagerCalls : ~QueryKeyRaises(x[1], x[2])})

\* a tier test that would keep a list of exactly 100 elements in memory
UseMemoryTierUpTo(result) == result.kind = "list" /\ result.len <= SMALL_RESULT_LIMIT

\* cache_query_result: isinstance(result, list) and len(result) < 100
UseMemoryTier(result) == result.kind = "list" /\ result.len < SMALL_RESULT_LIMIT

\* CacheManager.cache_query_result (the key derivation not raising);
\* ts: the three readings of TTLCache.set, or the two of FileCache.set first
cache_query_result(mem, fc, dir, query, result, params, ts) ==
    LET cache_key == QueryCacheKeys[<<query, params>>]
    IN  IF UseMemoryTier(result)
        THEN [memory_cache |-> TTLCache_set(mem, cache_key, result, ts[1], ts[2], ts[3]),
              file_cache |-> fc, cache_dir |-> dir, tier |-> "memory", t |-> ts[2]]
        ELSE LET w == FileCache_set(fc, dir, cache_key, result, ts[1], ts[2])
             IN  [memory_cache |-> mem, file_cache |-> w.self, cache_dir |-> w.dir,
                  tier |-> "disk", t |-> ts[1]]

\* a lookup that would probe the disk tier before the memory tier
get_cached_query_result_disk_first(mem, fc, dir, query, params, ts) ==
    LET cache_key == QueryCacheKeys[<<query, params>>]
        d == FileCache_get(fc, dir, cache_key, ts[4], ts[5])
    IN  IF d.ret # None
        THEN [memory_cache |-> mem, file_cache |-> d.self, cache_dir |-> d.dir,
              ret |-> d.ret, probes |-> <<"disk">>]
        ELSE LET m == TTLCache_get(mem, cache_key, ts[1], ts[2], ts[3])
             IN  [memory_cache |-> m.self, file_cache |-> d.self, cache_dir |-> d.dir,
                  ret |-> m.ret, probes |-> <<"disk", "memory">>]

\* CacheManager.get_cached_query_result (the key derivation not raising);
\* ts: the three readings of TTLCache.get, then the two of FileCache.get
get_cached_query_result(mem, fc, dir, query, params, ts) ==
    LET cache_key == QueryCacheKeys[<<query, params>>]
        m == TTLCache_get(mem, cache_key, ts[1], ts[2], ts[3])
    IN  IF m.ret # None
        THEN [memory_cache |-> m.self, file_cache |-> fc, cache_dir |-> dir,
              ret |-> m.ret, probes |-> <<"memory">>]
        ELSE LET d == FileCache_get(fc, dir, cache_key, ts[4], ts[5])
             IN  [memory_cache |-> m.self, file_cache |-> d.self, cache_dir |-> d.dir,
                  ret |-> d.ret, probes |-> <<"memory", "disk">>]

\* CacheManager.clear_all_caches
clear_all_caches(mem, fc, dir, t) ==
    LET c == FileCache_clear_expired(fc, dir, t, {})
    IN  [memory_cache |-> TTLCache_clear(mem), file_cache |-> c.self, cache_dir |-> c.dir]

----------------------------------------------------------------------------
(* The memoization wrappers of cached_query and cached_dataframe, on the   *)
(* tiers of CACHE_MANAGER.  result is what the wrapped function returns   *)
(* if the wrapper calls it; invoked counts the calls the wrapper makes.    *)

\* cached_query's wrapper under cache_key; ts: the three readings of
\* TTLCache.get, then the three of TTLCache.set
cached_query_wrapper(mem, cache_key, result, ts) ==
    LET m == TTLCache_get(mem, cache_key, ts[1], ts[2], ts[3])
    IN  IF m.ret # None
        THEN [memory_cache |-> m.self, ret |-> m.ret, invoked |-> 0, t |-> ts[3]]
        ELSE [memory_cache |-> TTLCache_set(m.self, cache_key, result, ts[4], ts[5], ts[6]),
              ret |-> result, invoked |-> 1, t |-> ts[6]]

\* cached_dataframe's wrapper under cache_key; ts: the two readings of
\* FileCache.get, then the two of FileCache.set
cached_dataframe_wrapper(fc, dir, cache_key, result, ts) ==
    LET d == FileCache_get(fc, dir, cache_key, ts[1], ts[2])
    IN  IF d.exc # "none"
        THEN [file_cache |-> fc, cache_dir |-> dir, ret |-> None, invoked |-> 0,
              t |-> ts[1], exc |-> d.exc]
        ELSE IF d.ret # None
        THEN [file_cache |-> d.self, cache_dir |-> d.dir, ret |-> d.ret, invoked |-> 0,
              t |-> ts[2], exc |-> "none"]
        ELSE LET w == FileCache_set(d.self, d.dir, cache_key, result, ts[3], ts[4])
             IN  [file_cache |-> w.self, cache_dir |-> w.dir, ret |-> result,
                  invoked |-> 1, t |-> ts[4], exc |-> "none"]

\* cached_query(ttl_seconds)(func) called: the decorator's argument is a
\* name of the enclosing scope that the wrapper never reads
cached_query(ttl_seconds, mem, cache_key, result, ts) ==
    cached_query_wrapper(mem, cache_key, result, ts)

\* cached_dataframe(ttl_hours)(func) called, likewise
cached_dataframe(ttl_hours, fc, dir, cache_key, result, ts) ==
    cached_dataframe_wrapper(fc, dir, cache_key, result, ts)

----------------------------------------------------------------------------
(* DatabaseConnector of src/src/tools/database_connector.py.  self is the  *)
(* object: connection ("none" or "open"), _is_connected,                   *)
(* _connection_attempts, max_retries.  An exception of the driver is       *)
(* [class, errno, words]; words are the texts the code looks for in the    *)
(* lower-cased message that the message holds.  What the database does at  *)
(* each interaction is an input of the operation.                          *)

Error(class, errno, words) == [class |-> class, errno |-> errno, words |-> words]
NoError == Error("none", 0, {})

\* DatabaseConnector.__init__
DatabaseConnector_init ==
    [connection |-> "none", max_retries |-> CONNECT_MAX_RETRIES,
     _connection_attempts |-> 0, _is_connected |-> FALSE]

\* one attempt of connect: snowflake.connector.connect returns a connection
\* (opened) or raises; _test_connection then passes, or raises
\* DatabaseConnectionError, which `except Exception` catches
ConnectOutcome(opened, error) == [opened |-> opened, error |-> error]

\* connect's except clauses: TRUE when the loop goes on to the next attempt,
\* FALSE when it breaks
ConnectRetries(e) ==
    IF e.class = "DatabaseError"
    THEN "authentication" \notin e.words /\ "account" \notin e.words
    ELSE IF e.class = "InterfaceError"
    THEN "network" \in e.words \/ "timeout" \in e.words
    ELSE TRUE

\* a connect that would report its failure by returning False
ConnectFailedReturnsFalse(self, tried) ==
    [self |-> [self EXCEPT !._is_connected = FALSE], ret |-> "False", exc |-> "none",
     tried |-> tried]

\* connect after its loop: the flag is cleared, DatabaseConnectionError raised
ConnectFailed(self, tried) ==
    [self |-> [self EXCEPT !._is_connected = FALSE], ret |-> "none",
     exc |-> "DatabaseConnectionError", tried |-> tried]

\* the loop of connect from `attempt` on; outcomes[i] is what the i-th
\* attempt meets, tried the number of attempts made
RECURSIVE ConnectLoop(_, _, _)
ConnectLoop(self, outcomes, attempt) ==
    IF attempt >= self.max_retries THEN ConnectFailed(self, attempt)
    ELSE LET o == outcomes[attempt + 1]
             counted == [self EXCEPT !._connection_attempts = @ + 1,
                                     !.connection = IF o.opened THEN "open" ELSE @]
         IN  IF o.error = NoError
             THEN [self |-> [counted EXCEPT !._is_connected = TRUE], ret |-> "True",
                   exc |-> "none", tried |-> attempt + 1]
             ELSE IF ~ConnectRetries(o.error) THEN ConnectFailed(counted, attempt + 1)
             ELSE ConnectLoop(counted, outcomes, attempt + 1)

\* DatabaseConnector.connect
DatabaseConnector_connect(self, outcomes) ==
    ConnectLoop([self EXCEPT !._connection_attempts = 0], outcomes, 0)

\* the is_connected property; ping is what its SELECT 1 meets
is_connected(self, ping) ==
    IF ~self._is_connected \/ self.connection = "none"
    THEN [self |-> self, ret |-> FALSE]
    ELSE IF ping = NoError THEN [self |-> self, ret |-> TRUE]
    ELSE [self |-> [self EXCEPT !._is_connected = FALSE], ret |-> FALSE]

\* DatabaseConnector.execute_query; o is what cursor.execute(query) meets.
\* msg: the words the message of the exception raised holds, those of the
\* driver's message and those of the prefix execute_query puts before it.
execute_query(self, ping, o) ==
    LET c == is_connected(self, ping)
        raise(obj, exc, words) ==
            [self |-> obj, ret |-> "none", exc |-> exc, msg |-> words, executed |-> TRUE]
    IN  IF ~c.ret
        THEN [self |-> c.self, ret |-> "none", exc |-> "DatabaseConnectionError",
              msg |-> {}, executed |-> FALSE]
        ELSE IF o = NoError
        THEN [self |-> c.self, ret |-> "rows", exc |-> "none", msg |-> {},
              executed |-> TRUE]
        ELSE IF o.class = "ProgrammingError"
        THEN IF o.errno = COMPILATION_ERRNO
             THEN raise(c.self, "DatabaseQueryError", o.words \cup {"compilation error"})
             ELSE IF "does not exist" \in o.words
             THEN raise(c.self, "DatabaseQueryError", o.words)
             ELSE IF "timeout" \in o.words
             THEN raise(c.self, "DatabaseQueryError", o.words \cup {"timeout"})
             ELSE raise(c.self, "DatabaseQueryError", o.words)
        ELSE IF o.class = "DatabaseError"
        THEN raise(c.self, "DatabaseQueryError", o.words)
        ELSE IF o.class = "InterfaceError"
        THEN raise([c.self EXCEPT !._is_connected = FALSE], "DatabaseConnectionError",
                   o.words)
        ELSE raise(c.self, "DatabaseQueryError", o.words)

\* a retry loop that would raise compilation errors only at once
RaisedAtOnceCompilationOnly(msg) == "compilation error" \in msg

\* execute_query_with_retry on a DatabaseQueryError: raised at once?
RaisedAtOnce(msg) == "compilation error" \in msg \/ "timeout" \in msg

\* DatabaseConnector.close
DatabaseConnector_close(self) ==
    IF self.connection = "none" THEN self
    ELSE [self EXCEPT !.connection = "none", !._is_connected = FALSE]

\* no call on the connector so far; for execute_query_with_retry, pc is
\* where its loop stands, attempt its loop variable, events what it did
NoCall ==
    [op |-> "none", pc |-> "idle", ret |-> "none", exc |-> "none", msg |-> {},
     tried |-> <<>>, attempt |-> 0, max_retries |-> 0,
     last_exception |-> [exc |-> "none", msg |-> {}], events |-> <<>>]

----------------------------------------------------------------------------
(* What an operation leaves in `last` and in the history `set_time` *)

\* the history after an operation on the memory tier: the keys still held keep
\* theirs, the key just set (NoKey: none) gets the instant t
SetTimes(self, key, t) ==
    [k \in DOMAIN self.cache |-> IF k = key THEN t ELSE set_time[k]]

NoArgs == <<<<>>, NoParams>>

NoOp ==
    [op |-> "none", key |-> NoKey, value |-> None, ret |-> None, hit |-> FALSE,
     t |-> 0, count |-> 0, fresh |-> FALSE, lru |-> NoKey,
     after |-> "none", after_value |-> None, after_t |-> 0, after_args |-> NoArgs,
     args |-> NoArgs, exc |-> "none", exc2 |-> "none", probes |-> <<>>, tier |-> "none",
     mem_same |-> TRUE, disk_same |-> TRUE, mem_before |-> None, disk_before |-> None,
     call |-> <<>>, call2 |-> <<>>, text |-> <<>>, text2 |-> <<>>, key2 |-> NoKey,
     prev |-> "none", prev_key |-> NoKey, prev_hit |-> FALSE,
     others_kept |-> TRUE, hist |-> <<>>, invoked |-> 0, held |-> FALSE, set_t |-> 0,
     config_file |-> <<>>, key_path |-> <<>>, default |-> <<>>, config_ret |-> <<>>,
     stats |-> <<>>, ttl |-> 0]

\* for a get of `key`: the operation just before it, when that stored under the same key
AfterOf(key) ==
    IF last.key = key /\ last.op \in {"set", "cache_query_result"}
    THEN [op |-> last.op, value |-> last.value, t |-> last.t, args |-> last.args]
    ELSE [op |-> "none", value |-> None, t |-> 0, args |-> NoArgs]

\* the value the memory tier holds under key, not older than its TTL at t (or None)
MemoryHolds(self, key, t) ==
    IF key \in DOMAIN self.cache /\ t - self.cache[key].timestamp <= self.ttl_seconds
    THEN self.cache[key].value ELSE None

\* the value the disk tier holds under key in a readable payload file with a
\* metadata record not older than its TTL at t (or None)
DiskHolds(self, dir, key, t) ==
    LET k == _get_cache_key(key)
    IN  IF /\ k \in DOMAIN dir.files
           /\ k \in DOMAIN self.metadata
           /\ Readable(dir.files[k])
           /\ TimestampError(self.metadata[k].timestamp) = "none"
           /\ t - FromIsoFormat(self.metadata[k].timestamp)
                    <= self.ttl_hours * SECONDS_PER_HOUR
        THEN Unpickle(dir.files[k]) ELSE None

\* the least recently accessed key of the table (NoKey when it is empty)
LruKey(self) ==
    IF self.access_times = <<>> THEN NoKey ELSE SortedByTime(self.access_times)[1].key

----------------------------------------------------------------------------
(* The memory tier alone *)

FileCacheOff == [ttl_hours |-> 0, metadata |-> <<>>]
NoDir == [files |-> <<>>, metadata_file |-> NoMetadataFile]

MemInstants ==
    {0, 1, DEFAULT_TTL_SECONDS + 1, DEFAULT_TTL_SECONDS + 2}

InitMem ==
    /\ now = 0
    /\ instants = MemInstants
    /\ \E size \in 1 .. MaxCapacity :
            memory_cache = TTLCache_init(DEFAULT_TTL_SECONDS, size)
    /\ file_cache = FileCacheOff
    /\ cache_dir = NoDir
    /\ set_time = <<>>
    /\ disk_set = <<>>
    /\ manager = "bound"
    /\ db_connector = DatabaseConnector_init
    /\ db_call = NoCall
    /\ last = NoOp

Tick ==
    /\ NextInstant(now) > now
    /\ now' = NextInstant(now)
    /\ UNCHANGED <<instants, disk_set, manager, memory_cache, file_cache, cache_dir, set_time, last,
                   db_connector, db_call>>

\* get(key) with the clock readings ts
MemGetAt(key, ts) ==
        LET r == TTLCache_get(memory_cache, key, ts[1], ts[2], ts[3])
        IN  /\ memory_cache' = r.self
            /\ now' = ts[3]
            /\ last' = [NoOp EXCEPT !.op = "get", !.key = key, !.ret = r.ret,
                                    !.hit = r.hit, !.t = ts[2],
                                    !.count = Cardinality(DOMAIN memory_cache.cache),
                                    !.after = AfterOf(key).op,
                                    !.after_value = AfterOf(key).value,
                                    !.after_t = AfterOf(key).t,
                                    !.after_args = AfterOf(key).args]
            /\ set_time' = SetTimes(memory_cache', NoKey, 0)
            /\ UNCHANGED <<instants, disk_set, manager, file_cache, cache_dir,
                   db_connector, db_call>>

MemGet(key) == \E ts \in Readings(3) : MemGetAt(key, ts)

\* set(key, value) with the clock readings ts
MemSetAt(key, value, ts) ==
        LET swept == _evict_expired(memory_cache, ts[1])
        IN  /\ memory_cache' = TTLCache_set(memory_cache, key, value, ts[1], ts[2], ts[3])
            /\ now' = ts[3]
            /\ set_time' = SetTimes(memory_cache', key, ts[2])
            /\ last' = [NoOp EXCEPT !.op = "set", !.key = key, !.value = value,
                                    !.t = ts[2],
                                    !.count = Cardinality(DOMAIN swept.cache),
                                    !.fresh = key \notin DOMAIN swept.cache,
                                    !.lru = LruKey(swept)]
            /\ UNCHANGED <<instants, disk_set, manager, file_cache, cache_dir,
                   db_connector, db_call>>

MemSet(key, value) == \E ts \in Readings(3) : MemSetAt(key, value, ts)

MemDelete(key) ==
    /\ memory_cache' = TTLCache_delete(memory_cache, key)
    /\ last' = [NoOp EXCEPT !.op = "delete", !.key = key, !.t = now]
    /\ set_time' = SetTimes(memory_cache', NoKey, 0)
    /\ UNCHANGED <<now, instants, disk_set, manager, file_cache, cache_dir,
                   db_connector, db_call>>

MemClear ==
    /\ memory_cache' = TTLCache_clear(memory_cache)
    /\ last' = [NoOp EXCEPT !.op = "clear", !.t = now]
    /\ set_time' = SetTimes(memory_cache', NoKey, 0)
    /\ UNCHANGED <<now, instants, disk_set, manager, file_cache, cache_dir,
                   db_connector, db_call>>

MemStats ==
    /\ last' = [NoOp EXCEPT !.op = "stats", !.t = now,
                            !.stats = TTLCache_stats(memory_cache, now)]
    /\ UNCHANGED <<now, instants, disk_set, manager, memory_cache, file_cache, cache_dir,
                   set_time,
                   db_connector, db_call>>

NextMem ==
    \/ Tick
    \/ \E key \in TierKeys : MemGet(key)
    \/ \E key \in TierKeys : \E value \in TierValues : MemSet(key, value)
    \/ \E key \in TierKeys : MemDelete(key)
    \/ MemClear
    \/ MemStats

SpecMem == InitMem /\ [][NextMem]_vars

----------------------------------------------------------------------------
(* The memory tier and a caller that keeps the objects it exchanges with   *)
(* it.  set stores the object it is passed and get returns the stored      *)
(* object, not copies: cache[key].value is the content of an object the    *)
(* caller holds too.  Every set is passed a list of its own.               *)

AliasKeys == {<<"a">>, <<"b">>}

InitAlias ==
    /\ now = 0
    /\ instants = {0, 1, DEFAULT_TTL_SECONDS + 1}
    /\ memory_cache = TTLCache_init(DEFAULT_TTL_SECONDS, MaxCapacity)
    /\ file_cache = FileCacheOff
    /\ cache_dir = NoDir
    /\ set_time = <<>>
    /\ disk_set = <<>>
    /\ manager = "bound"
    /\ db_connector = DatabaseConnector_init
    /\ db_call = NoCall
    /\ last = NoOp

\* list.append on the object the caller passed to set(key, ..) ("passed") or
\* got from the get(key) just before ("returned"): the stored entry is that
\* object.  last.value keeps what set was given.
MutateObject(key, via) ==
    /\ key \in DOMAIN memory_cache.cache
    /\ via = "returned" => (last.op = "get" /\ last.key = key /\ last.hit)
    /\ memory_cache.cache[key].value.len < MaxListLen
    /\ memory_cache' =
            [memory_cache EXCEPT !.cache[key].value = ListOf(@.len + 1)]
    /\ last' = [NoOp EXCEPT !.op = "mutate", !.key = key, !.t = now,
                            !.value = IF last.op = "mutate" /\ last.key = key
                                      THEN last.value
                                      ELSE memory_cache.cache[key].value]
    /\ UNCHANGED <<now, instants, file_cache, cache_dir, set_time, disk_set, manager,
                   db_connector, db_call>>

\* TTLCache.get by that caller
AliasGet(key) ==
    \E ts \in Readings(3) :
        LET r == TTLCache_get(memory_cache, key, ts[1], ts[2], ts[3])
            same == last.key = key /\ last.op \in {"set", "mutate"}
        IN  /\ memory_cache' = r.self
            /\ now' = ts[3]
            /\ last' = [NoOp EXCEPT !.op = "get", !.key = key, !.ret = r.ret,
                                    !.hit = r.hit, !.t = ts[2],
                                    !.after = IF same THEN last.op ELSE "none",
                                    !.after_value = IF same THEN last.value ELSE None]
            /\ set_time' = SetTimes(memory_cache', NoKey, 0)
            /\ UNCHANGED <<instants, file_cache, cache_dir, disk_set, manager,
                   db_connector, db_call>>

NextAlias ==
    \/ Tick
    \/ \E key \in AliasKeys : \E value \in TierValues : MemSet(key, value)
    \/ \E key \in AliasKeys : AliasGet(key)
    \/ \E key \in AliasKeys : \E via \in {"passed", "returned"} : MutateObject(key, via)

SpecAlias == InitAlias /\ [][NextAlias]_vars

----------------------------------------------------------------------------
(* The disk tier alone: FileCache instances, one at a time, on one         *)
(* directory; SpecDisk with files left as the cache wrote them,            *)
(* SpecDiskFaults with payload files and cache_metadata.json damaged       *)
(* behind the cache's back                                                 *)

DiskKeys == {<<"a">>, <<"b">>}
DiskValues == {ListOf(1), Frame}

DiskTtl == DEFAULT_TTL_HOURS * SECONDS_PER_HOUR
DiskInstants == {0, 1, DiskTtl, DiskTtl + 1}

InitDisk ==
    /\ now = 0
    /\ instants = DiskInstants
    /\ memory_cache = TTLCache_init(DEFAULT_TTL_SECONDS, 1)
    /\ file_cache = FileCache_init(NoDir, DEFAULT_TTL_HOURS)
    /\ cache_dir = NoDir
    /\ set_time = <<>>
    /\ disk_set = <<>>
    /\ manager = "bound"
    /\ db_connector = DatabaseConnector_init
    /\ db_call = NoCall
    /\ last = NoOp

\* the payload file and the record of every key other than `key` are, after
\* the operation (fc2, dir2), what they were before it
OthersKept(key, fc2, dir2) ==
    \A k \in DiskKeys \ {key} :
        LET ck == _get_cache_key(k)
        IN  /\ ck \in DOMAIN cache_dir.files =>
                (ck \in DOMAIN dir2.files /\ dir2.files[ck] = cache_dir.files[ck])
            /\ ck \in DOMAIN file_cache.metadata =>
                (ck \in DOMAIN fc2.metadata /\ fc2.metadata[ck] = file_cache.metadata[ck])

DiskSet(key, value) ==
    \E ts \in Readings(2) :
        LET w == FileCache_set(file_cache, cache_dir, key, value, ts[1], ts[2])
        IN  /\ file_cache' = w.self
            /\ cache_dir' = w.dir
            /\ now' = ts[2]
            /\ disk_set' = IF Picklable(value)
                           THEN DictPut(disk_set, key, [value |-> value, t |-> ts[1]])
                           ELSE disk_set
            /\ last' = [NoOp EXCEPT !.op = "disk.set", !.key = key, !.value = value,
                                    !.t = ts[1], !.exc = w.exc,
                                    !.others_kept = OthersKept(key, w.self, w.dir)]
            /\ UNCHANGED <<instants, memory_cache, set_time, manager,
                   db_connector, db_call>>

DiskGet(key) ==
    \E ts \in Readings(2) :
        LET r == FileCache_get(file_cache, cache_dir, key, ts[1], ts[2])
        IN  /\ file_cache' = r.self
            /\ cache_dir' = r.dir
            /\ now' = IF r.ret # None THEN ts[2] ELSE ts[1]
            /\ last' = [NoOp EXCEPT !.op = "disk.get", !.key = key, !.ret = r.ret,
                                    !.t = ts[1], !.exc = r.exc, !.hit = r.ret # None,
                                    !.prev = last.op, !.prev_key = last.key,
                                    !.prev_hit = last.hit, !.after_value = last.value,
                                    !.others_kept = OthersKept(key, r.self, r.dir)]
            /\ UNCHANGED <<instants, memory_cache, set_time, disk_set, manager,
                   db_connector, db_call>>

DiskDelete(key) ==
    LET r == FileCache_delete(file_cache, cache_dir, key)
    IN  /\ file_cache' = r.self
        /\ cache_dir' = r.dir
        /\ disk_set' = DictPop(disk_set, {key})
        /\ last' = [NoOp EXCEPT !.op = "disk.delete", !.key = key, !.t = now,
                                !.exc = r.exc]
        /\ UNCHANGED <<now, instants, memory_cache, set_time, manager,
                   db_connector, db_call>>

DiskClearExpired ==
    \E scanned \in (IF RaisingKeys(file_cache) = {} THEN {{}}
                    ELSE SUBSET (DOMAIN file_cache.metadata \ RaisingKeys(file_cache))) :
        LET r == FileCache_clear_expired(file_cache, cache_dir, now, scanned)
        IN  /\ file_cache' = r.self
            /\ cache_dir' = r.dir
            /\ disk_set' =
                    IF r.exc # "none" THEN disk_set
                    ELSE DictPop(disk_set, {k \in DOMAIN disk_set :
                                                now - disk_set[k].t > DiskTtl})
            /\ last' = [NoOp EXCEPT !.op = "disk.clear_expired", !.t = now,
                                    !.exc = r.exc, !.hist = disk_set]
            /\ UNCHANGED <<now, instants, memory_cache, set_time, manager,
                   db_connector, db_call>>

DiskStats ==
    LET r == FileCache_stats(file_cache, now)
    IN  /\ last' = [NoOp EXCEPT !.op = "disk.stats", !.t = now, !.exc = r.exc,
                                !.count = r.entries]
        /\ UNCHANGED <<now, instants, memory_cache, file_cache, cache_dir, set_time,
                       disk_set, manager,
                   db_connector, db_call>>

\* the process ends; a fresh FileCache is constructed on the same directory
Restart ==
    /\ file_cache' = FileCache_init(cache_dir, DEFAULT_TTL_HOURS)
    /\ last' = [NoOp EXCEPT !.op = "restart", !.t = now]
    /\ UNCHANGED <<now, instants, memory_cache, cache_dir, set_time, disk_set, manager,
                   db_connector, db_call>>

NextDisk ==
    \/ Tick
    \/ \E key \in DiskKeys : \E value \in DiskValues : DiskSet(key, value)
    \/ \E key \in DiskKeys : DiskGet(key)
    \/ \E key \in DiskKeys : DiskDelete(key)
    \/ DiskClearExpired
    \/ DiskStats
    \/ Restart

SpecDisk == InitDisk /\ [][NextDisk]_vars

\* a payload file is overwritten with bytes pickle cannot load
Garbage == [format |-> "garbage", obj |-> None]

CorruptPayload(key) ==
    /\ _get_cache_key(key) \in DOMAIN cache_dir.files
    /\ Readable(cache_dir.files[_get_cache_key(key)])
    /\ cache_dir' = [cache_dir EXCEPT !.files[_get_cache_key(key)] = Garbage]
    /\ last' = [NoOp EXCEPT !.op = "fault.corrupt_payload", !.key = key, !.t = now]
    /\ UNCHANGED <<now, instants, memory_cache, file_cache, set_time, disk_set, manager,
                   db_connector, db_call>>

\* a payload file is deleted
RemovePayload(key) ==
    /\ _get_cache_key(key) \in DOMAIN cache_dir.files
    /\ cache_dir' = [cache_dir EXCEPT !.files = DictPop(@, {_get_cache_key(key)})]
    /\ last' = [NoOp EXCEPT !.op = "fault.remove_payload", !.key = key, !.t = now]
    /\ UNCHANGED <<now, instants, memory_cache, file_cache, set_time, disk_set, manager,
                   db_connector, db_call>>

\* a record of cache_metadata.json loses its timestamp or gets a malformed one
CorruptMetadata(key, bad) ==
    /\ JsonLoads(cache_dir.metadata_file)
    /\ _get_cache_key(key) \in DOMAIN JsonLoad(cache_dir.metadata_file)
    /\ JsonLoad(cache_dir.metadata_file)[_get_cache_key(key)].timestamp # bad
    /\ cache_dir' =
            [cache_dir EXCEPT !.metadata_file.doc[_get_cache_key(key)].timestamp = bad]
    /\ last' = [NoOp EXCEPT !.op = "fault.corrupt_metadata", !.key = key, !.t = now]
    /\ UNCHANGED <<now, instants, memory_cache, file_cache, set_time, disk_set, manager,
                   db_connector, db_call>>

NextDiskFaults ==
    \/ Tick
    \/ \E key \in DiskKeys : DiskSet(key, Frame)
    \/ \E key \in DiskKeys : DiskGet(key)
    \/ \E key \in DiskKeys : DiskDelete(key)
    \/ DiskClearExpired
    \/ DiskStats
    \/ Restart
    \/ \E key \in DiskKeys : CorruptPayload(key)
    \/ \E key \in DiskKeys : RemovePayload(key)
    \/ \E key \in DiskKeys :
            \E bad \in {MalformedTimestamp, MissingTimestamp} : CorruptMetadata(key, bad)

\* the same start, the clock showing the two ends of the run only
InitDiskFaults ==
    /\ now = 0
    /\ instants = {0, DiskTtl + 1}
    /\ memory_cache = TTLCache_init(DEFAULT_TTL_SECONDS, 1)
    /\ file_cache = FileCache_init(NoDir, DEFAULT_TTL_HOURS)
    /\ cache_dir = NoDir
    /\ set_time = <<>>
    /\ disk_set = <<>>
    /\ manager = "bound"
    /\ db_connector = DatabaseConnector_init
    /\ db_call = NoCall
    /\ last = NoOp

SpecDiskFaults == InitDiskFaults /\ [][NextDiskFaults]_vars

\* the disk tier given values of which some cannot be pickled
NextDiskFailedSet ==
    \/ Tick
    \/ \E key \in DiskKeys : \E value \in {ListOf(1), Frame, Unpicklable} :
            DiskSet(key, value)
    \/ \E key \in DiskKeys : DiskGet(key)
    \/ \E key \in DiskKeys : DiskDelete(key)
    \/ DiskClearExpired
    \/ Restart

SpecDiskFailedSet == InitDiskFaults /\ [][NextDiskFailedSet]_vars

----------------------------------------------------------------------------
(* Two FileCache instances constructed on the same empty directory, each   *)
(* with its own metadata dict, and fresh instances constructed on the      *)
(* directory later.  file_cache holds the two instances; last.hist is the  *)
(* sequence of the calls made so far.                                      *)

Instances == {"A", "B"}

\* the runs are the sequences of at most MaxCalls calls
MaxCalls == 3

InitShared ==
    /\ now = 0
    /\ instants = {0}
    /\ memory_cache = TTLCache_init(DEFAULT_TTL_SECONDS, 1)
    /\ file_cache = [i \in Instances |-> FileCache_init(NoDir, DEFAULT_TTL_HOURS)]
    /\ cache_dir = NoDir
    /\ set_time = <<>>
    /\ disk_set = <<>>
    /\ manager = "bound"
    /\ db_connector = DatabaseConnector_init
    /\ db_call = NoCall
    /\ last = NoOp

Called(i, op, key) == Append(last.hist, [inst |-> i, op |-> op, key |-> key])

SharedSet(i, key, value) ==
    LET w == FileCache_set(file_cache[i], cache_dir, key, value, now, now)
    IN  /\ Len(last.hist) < MaxCalls
        /\ file_cache' = [file_cache EXCEPT ![i] = w.self]
        /\ cache_dir' = w.dir
        /\ last' = [NoOp EXCEPT !.op = "disk.set", !.key = key, !.value = value,
                                !.hist = Called(i, "set", key)]
        /\ UNCHANGED <<now, instants, memory_cache, set_time, disk_set, manager,
                   db_connector, db_call>>

SharedGet(i, key) ==
    LET r == FileCache_get(file_cache[i], cache_dir, key, now, now)
    IN  /\ Len(last.hist) < MaxCalls
        /\ file_cache' = [file_cache EXCEPT ![i] = r.self]
        /\ cache_dir' = r.dir
        /\ last' = [NoOp EXCEPT !.op = "disk.get", !.key = key, !.ret = r.ret,
                                !.hit = r.ret # None, !.hist = Called(i, "get", key)]
        /\ UNCHANGED <<now, instants, memory_cache, set_time, disk_set, manager,
                   db_connector, db_call>>

SharedDelete(i, key) ==
    LET r == FileCache_delete(file_cache[i], cache_dir, key)
    IN  /\ Len(last.hist) < MaxCalls
        /\ file_cache' = [file_cache EXCEPT ![i] = r.self]
        /\ cache_dir' = r.dir
        /\ last' = [NoOp EXCEPT !.op = "disk.delete", !.key = key,
                                !.hist = Called(i, "delete", key)]
        /\ UNCHANGED <<now, instants, memory_cache, set_time, disk_set, manager,
                   db_connector, db_call>>

\* FileCache(cache_dir).get(key) on an instance constructed for the call
FreshGet(key) ==
    LET r == FileCache_get(FileCache_init(cache_dir, DEFAULT_TTL_HOURS), cache_dir, key,
                           now, now)
    IN  /\ Len(last.hist) < MaxCalls
        /\ cache_dir' = r.dir
        /\ last' = [NoOp EXCEPT !.op = "disk.get", !.key = key, !.ret = r.ret,
                                !.hit = r.ret # None, !.hist = Called("fresh", "get", key)]
        /\ UNCHANGED <<now, instants, memory_cache, file_cache, set_time, disk_set,
                       manager,
                   db_connector, db_call>>

NextShared ==
    \/ \E i \in Instances : \E key \in DiskKeys : \E value \in DiskValues :
            SharedSet(i, key, value)
    \/ \E i \in Instances : \E key \in DiskKeys : SharedGet(i, key)
    \/ \E i \in Instances : \E key \in DiskKeys : SharedDelete(i, key)
    \/ \E key \in DiskKeys : FreshGet(key)

SpecShared == InitShared /\ [][NextShared]_vars

----------------------------------------------------------------------------
(* Key derivation alone: two derivations side by side *)

KeyQueries == {<<"s">>, <<" ", "s">>, <<"s", " ">>, <<"s", " ", "t">>, <<"t">>}

KeyParams ==
    {NoParams, ParamList(<<>>), ParamList(<<IntV("1")>>), ParamList(<<StrV("1")>>),
     ParamList(<<IntV("1"), IntV("2")>>), ParamList(<<IntV("2"), IntV("1")>>),
     ParamList(<<ObjV("datetime")>>)}

KeyNames == {<<"t">>, <<"u">>}

WrapperFuncs == {"f", "g"}
WrapperArgs == {<<>>, <<IntV("1")>>, <<StrV("1")>>}
Kw(name, value) == [name |-> name, value |-> value]
WrapperKwargs ==
    {<<>>, <<Kw("x", IntV("1"))>>, <<Kw("y", IntV("1"))>>,
     <<Kw("x", IntV("1")), Kw("y", IntV("2"))>>,
     <<Kw("y", IntV("2")), Kw("x", IntV("1"))>>,
     <<Kw("x", IntV("2")), Kw("y", IntV("1"))>>}

InitKey ==
    /\ now = 0
    /\ instants = {0}
    /\ memory_cache = TTLCache_init(MANAGER_TTL_SECONDS, MANAGER_MAX_SIZE)
    /\ file_cache = FileCache_init(NoDir, MANAGER_TTL_HOURS)
    /\ cache_dir = NoDir
    /\ set_time = <<>>
    /\ disk_set = <<>>
    /\ manager = "bound"
    /\ db_connector = DatabaseConnector_init
    /\ db_call = NoCall
    /\ last = NoOp

\* a derivation is made once, from the initial state; it touches no state
Unobserved ==
    /\ last = NoOp
    /\ UNCHANGED <<now, instants, disk_set, manager, memory_cache, file_cache, cache_dir, set_time,
                   db_connector, db_call>>

\* get_query_cache_key(query=.., params=..) twice
DeriveQueryKeys(c1, c2) ==
    /\ Unobserved
    /\ LET raises1 == QueryKeyRaises(c1[1], c1[2])
           raises2 == QueryKeyRaises(c2[1], c2[2])
       IN  last' =
            [NoOp EXCEPT !.op = "get_query_cache_key", !.call = c1, !.call2 = c2,
                         !.exc = IF raises1 THEN "TypeError" ELSE "none",
                         !.exc2 = IF raises2 THEN "TypeError" ELSE "none",
                         !.text = IF raises1 THEN <<>> ELSE QueryKeyData(c1[1], c1[2]),
                         !.text2 = IF raises2 THEN <<>> ELSE QueryKeyData(c2[1], c2[2]),
                         !.key = IF raises1 THEN NoKey ELSE get_query_cache_key(c1[1], c1[2]),
                         !.key2 = IF raises2 THEN NoKey ELSE get_query_cache_key(c2[1], c2[2])]

\* get_profiling_cache_key(table_name=.., column_name=..) twice
DeriveProfilingKeys(c1, c2) ==
    /\ Unobserved
    /\ last' = [NoOp EXCEPT !.op = "get_profiling_cache_key", !.call = c1, !.call2 = c2,
                            !.text = ProfilingKeyData(c1[1], c1[2]),
                            !.text2 = ProfilingKeyData(c2[1], c2[2]),
                            !.key = get_profiling_cache_key(c1[1], c1[2]),
                            !.key2 = get_profiling_cache_key(c2[1], c2[2])]

\* the key construction of a wrapped function's call, twice
DeriveWrapperKeys(c1, c2) ==
    /\ Unobserved
    /\ last' = [NoOp EXCEPT !.op = "wrapper", !.call = c1, !.call2 = c2,
                            !.text = WrapperKeyData(c1[1], c1[2], c1[3]),
                            !.text2 = WrapperKeyData(c2[1], c2[2], c2[3]),
                            !.key = WrapperCacheKey(c1[1], c1[2], c1[3]),
                            !.key2 = WrapperCacheKey(c2[1], c2[2], c2[3])]

NextKey ==
    \/ \E c1, c2 \in KeyQueries \X KeyParams : DeriveQueryKeys(c1, c2)
    \/ \E c1, c2 \in KeyNames \X KeyNames : DeriveProfilingKeys(c1, c2)
    \/ \E c1, c2 \in WrapperFuncs \X WrapperArgs \X WrapperKwargs : DeriveWrapperKeys(c1, c2)

SpecKey == InitKey /\ [][NextKey]_vars

----------------------------------------------------------------------------
(* The Cache Manager: CACHE_MANAGER = CacheManager() on an empty ./cache *)

\* the keys the Manager derives
ManagerKeys == {QueryCacheKeys[a] : a \in DOMAIN QueryCacheKeys}

ManagerInstants ==
    {0, MANAGER_TTL_SECONDS, MANAGER_TTL_SECONDS + 1, MANAGER_TTL_HOURS * SECONDS_PER_HOUR + 1}

Init ==
    /\ now = 0
    /\ instants = ManagerInstants
    /\ memory_cache = TTLCache_init(MANAGER_TTL_SECONDS, MANAGER_MAX_SIZE)
    /\ file_cache = FileCache_init(NoDir, MANAGER_TTL_HOURS)
    /\ cache_dir = NoDir
    /\ set_time = <<>>
    /\ disk_set = <<>>
    /\ manager = "bound"
    /\ db_connector = DatabaseConnector_init
    /\ db_call = NoCall
    /\ last = NoOp

CacheQueryResult(query, result, params) ==
    IF <<query, params>> \notin DOMAIN QueryCacheKeys
    THEN /\ last' = [NoOp EXCEPT !.op = "cache_query_result", !.args = <<query, params>>,
                                 !.value = result, !.t = now, !.exc = "TypeError"]
         /\ UNCHANGED <<now, instants, disk_set, manager, memory_cache, file_cache, cache_dir, set_time,
                   db_connector, db_call>>
    ELSE \E ts \in Readings(IF UseMemoryTier(result) THEN 3 ELSE 2) :
            LET r == cache_query_result(memory_cache, file_cache, cache_dir,
                                        query, result, params, ts)
                key == QueryCacheKeys[<<query, params>>]
            IN  /\ memory_cache' = r.memory_cache
                /\ file_cache' = r.file_cache
                /\ cache_dir' = r.cache_dir
                /\ now' = ts[Len(ts)]
                /\ set_time' = SetTimes(memory_cache',
                                        IF r.tier = "memory" THEN key ELSE NoKey, r.t)
                /\ last' = [NoOp EXCEPT !.op = "cache_query_result", !.key = key,
                                        !.args = <<query, params>>, !.value = result,
                                        !.t = r.t, !.tier = r.tier,
                                        !.mem_same = (memory_cache' = memory_cache),
                                        !.disk_same = (/\ file_cache' = file_cache
                                                       /\ cache_dir' = cache_dir)]
                /\ UNCHANGED <<instants, disk_set, manager, disk_set, manager,
                   db_connector, db_call>>

GetCachedQueryResult(query, params) ==
    IF <<query, params>> \notin DOMAIN QueryCacheKeys
    THEN /\ last' = [NoOp EXCEPT !.op = "get_cached_query_result",
                                 !.args = <<query, params>>, !.t = now,
                                 !.exc = "TypeError"]
         /\ UNCHANGED <<now, instants, disk_set, manager, memory_cache, file_cache, cache_dir, set_time,
                   db_connector, db_call>>
    ELSE \E ts \in Readings(5) :
            LET r == get_cached_query_result(memory_cache, file_cache, cache_dir,
                                             query, params, ts)
                key == QueryCacheKeys[<<query, params>>]
            IN  /\ memory_cache' = r.memory_cache
                /\ file_cache' = r.file_cache
                /\ cache_dir' = r.cache_dir
                /\ now' = IF r.probes[Len(r.probes)] = "disk" THEN ts[5] ELSE ts[3]
                /\ set_time' = SetTimes(memory_cache', NoKey, 0)
                /\ last' = [NoOp EXCEPT !.op = "get_cached_query_result", !.key = key,
                                        !.args = <<query, params>>, !.ret = r.ret,
                                        !.t = now', !.probes = r.probes,
                                        !.prev = last.op,
                                        !.after = AfterOf(key).op,
                                        !.after_value = AfterOf(key).value,
                                        !.after_t = AfterOf(key).t,
                                        !.after_args = AfterOf(key).args,
                                        !.mem_before = MemoryHolds(memory_cache, key, ts[2]),
                                        !.disk_before =
                                            DiskHolds(file_cache, cache_dir, key, ts[4]),
                                        !.disk_same = (/\ file_cache' = file_cache
                                                       /\ cache_dir' = cache_dir)]
                /\ UNCHANGED <<instants, disk_set, manager, disk_set, manager,
                   db_connector, db_call>>

ClearAllCaches ==
    LET r == clear_all_caches(memory_cache, file_cache, cache_dir, now)
    IN  /\ memory_cache' = r.memory_cache
        /\ file_cache' = r.file_cache
        /\ cache_dir' = r.cache_dir
        /\ set_time' = SetTimes(memory_cache', NoKey, 0)
        /\ last' = [NoOp EXCEPT !.op = "clear_all_caches", !.t = now]
        /\ UNCHANGED <<now, instants, disk_set, manager,
                   db_connector, db_call>>

\* CACHE_MANAGER.file_cache.set(key, value) by a caller, under a key the Manager derives
FileCacheSet(key, value) ==
    \E ts \in Readings(2) :
        LET w == FileCache_set(file_cache, cache_dir, key, value, ts[1], ts[2])
        IN  /\ file_cache' = w.self
            /\ cache_dir' = w.dir
            /\ now' = ts[2]
            /\ last' = [NoOp EXCEPT !.op = "file_cache.set", !.key = key,
                                    !.value = value, !.t = ts[1], !.tier = "disk"]
            /\ UNCHANGED <<instants, disk_set, manager, memory_cache, set_time,
                   db_connector, db_call>>

Next ==
    \/ Tick
    \/ \E call \in ManagerCalls : \E r \in Results : CacheQueryResult(call[1], r, call[2])
    \/ \E call \in ManagerCalls : GetCachedQueryResult(call[1], call[2])
    \/ ClearAllCaches
    \/ \E key \in ManagerKeys : \E value \in Results : FileCacheSet(key, value)

Spec == Init /\ [][Next]_vars

----------------------------------------------------------------------------
(* Start-up: importing the module runs CACHE_MANAGER = CacheManager(),     *)
(* whose FileCache creates ./cache; the calls that follow are routed to    *)
(* the memory tier                                                         *)

\* before the import no tier exists
NoMemoryCache == TTLCache_init(0, 0)

\* the calls whose key derivation returns, and results the memory tier takes
BootCalls == DOMAIN QueryCacheKeys
BootResults == {r \in Results : UseMemoryTier(r)}

\* the exception of self.cache_dir.mkdir(parents=True, exist_ok=True) when
\* the directory cannot be created ("none": it is created or exists)
MkdirOutcomes == {"none", "OSError"}

InitBoot ==
    /\ now = 0
    /\ instants = ManagerInstants
    /\ memory_cache = NoMemoryCache
    /\ file_cache = FileCacheOff
    /\ cache_dir = NoDir
    /\ set_time = <<>>
    /\ disk_set = <<>>
    /\ manager = "unbound"
    /\ db_connector = DatabaseConnector_init
    /\ db_call = NoCall
    /\ last = NoOp

\* CacheManager.__init__ with FileCache.__init__ inlined: the exception of
\* mkdir is not caught, the constructor raises and CACHE_MANAGER stays unbound
ImportModule(mkdir) ==
    /\ manager = "unbound"
    /\ IF mkdir = "none"
       THEN /\ memory_cache' = TTLCache_init(MANAGER_TTL_SECONDS, MANAGER_MAX_SIZE)
            /\ file_cache' = FileCache_init(cache_dir, MANAGER_TTL_HOURS)
            /\ manager' = "bound"
       ELSE UNCHANGED <<memory_cache, file_cache, manager>>
    /\ last' = [NoOp EXCEPT !.op = "CacheManager", !.t = now, !.exc = mkdir]
    /\ UNCHANGED <<now, instants, cache_dir, set_time, disk_set,
                   db_connector, db_call>>

\* a call on CACHE_MANAGER: made on the manager when the import bound it,
\* failing with the import's error when it did not
BootCacheQueryResult(query, result, params) ==
    IF manager = "bound" THEN CacheQueryResult(query, result, params)
    ELSE /\ last' = [NoOp EXCEPT !.op = "cache_query_result", !.args = <<query, params>>,
                                 !.value = result, !.t = now, !.exc = "OSError"]
         /\ UNCHANGED <<now, instants, memory_cache, file_cache, cache_dir, set_time,
                        disk_set, manager,
                   db_connector, db_call>>

BootGetCachedQueryResult(query, params) ==
    IF manager = "bound" THEN GetCachedQueryResult(query, params)
    ELSE /\ last' = [NoOp EXCEPT !.op = "get_cached_query_result",
                                 !.args = <<query, params>>, !.t = now,
                                 !.exc = "OSError"]
         /\ UNCHANGED <<now, instants, memory_cache, file_cache, cache_dir, set_time,
                        disk_set, manager,
                   db_connector, db_call>>

NextBoot ==
    \/ Tick
    \/ \E mkdir \in MkdirOutcomes : ImportModule(mkdir)
    \/ \E call \in BootCalls : \E r \in BootResults :
            BootCacheQueryResult(call[1], r, call[2])
    \/ \E call \in BootCalls : BootGetCachedQueryResult(call[1], call[2])

SpecBoot == InitBoot /\ [][NextBoot]_vars

----------------------------------------------------------------------------
(* Calls of functions wrapped by cached_query and cached_dataframe *)

\* the identities of the wrapped calls: func.__name__, args, kwargs
WrapCalls == {<<"f", <<>>, <<>>>>, <<"f", <<IntV("1")>>, <<>>>>}

\* the calls of the wrapped frame function
FrameCalls == {<<"f", <<>>, <<>>>>}

\* what a wrapped query function may return: None, an empty list; what a
\* wrapped frame function may return: None, a frame
QueryResults == {None, ListOf(0)}
FrameResults == {None, Frame}

\* the wrappers' keys on the calls of the model, derived once
RECURSIVE TabulateWrapper(_)
TabulateWrapper(S) ==
    IF S = {} THEN <<>>
    ELSE LET a == CHOOSE x \in S : TRUE
         IN  (a :> WrapperCacheKey(a[1], a[2], a[3])) @@ TabulateWrapper(S \ {a})
WrapperKeys == TabulateWrapper(WrapCalls)

\* the memory tier holds an entry under key, not older than its TTL at t
MemoryEntryHeld(self, key, t) ==
    key \in DOMAIN self.cache /\ t - self.cache[key].timestamp <= self.ttl_seconds

\* the disk tier holds a readable payload under key with a record not older
\* than its TTL at t
DiskEntryHeld(self, dir, key, t) ==
    LET k == _get_cache_key(key)
    IN  /\ k \in DOMAIN dir.files
        /\ k \in DOMAIN self.metadata
        /\ Readable(dir.files[k])
        /\ TimestampError(self.metadata[k].timestamp) = "none"
        /\ t - FromIsoFormat(self.metadata[k].timestamp)
                <= self.ttl_hours * SECONDS_PER_HOUR

\* for a wrapped call under key: the instant the call just before it stored
\* its result, when that was a call of the same wrapper under the same key
\* that invoked the function
StoredJustBefore(op, key) == last.op = op /\ last.key = key /\ last.invoked = 1

CallCachedQuery(call, result) ==
    \E ts \in Readings(6) :
        LET key == WrapperKeys[call]
            r == cached_query_wrapper(memory_cache, key, result, ts)
        IN  /\ memory_cache' = r.memory_cache
            /\ now' = r.t
            /\ set_time' = SetTimes(memory_cache', IF r.invoked = 1 THEN key ELSE NoKey,
                                    ts[5])
            /\ last' = [NoOp EXCEPT !.op = "cached_query", !.key = key, !.call = call,
                                    !.value = result, !.ret = r.ret,
                                    !.invoked = r.invoked, !.t = ts[2], !.set_t = ts[5],
                                    !.held = MemoryEntryHeld(memory_cache, key, ts[2]),
                                    !.mem_before =
                                        IF MemoryEntryHeld(memory_cache, key, ts[2])
                                        THEN memory_cache.cache[key].value ELSE None,
                                    !.after = IF StoredJustBefore("cached_query", key)
                                              THEN "stored" ELSE "none",
                                    !.after_t = IF StoredJustBefore("cached_query", key)
                                                THEN last.set_t ELSE 0]
            /\ UNCHANGED <<instants, file_cache, cache_dir, disk_set, manager,
                   db_connector, db_call>>

CallCachedDataframe(call, result) ==
    \E ts \in Readings(4) :
        LET key == WrapperKeys[call]
            r == cached_dataframe_wrapper(file_cache, cache_dir, key, result, ts)
        IN  /\ file_cache' = r.file_cache
            /\ cache_dir' = r.cache_dir
            /\ now' = r.t
            /\ last' = [NoOp EXCEPT !.op = "cached_dataframe", !.key = key, !.call = call,
                                    !.value = result, !.ret = r.ret, !.exc = r.exc,
                                    !.invoked = r.invoked, !.t = ts[1], !.set_t = ts[3],
                                    !.held = DiskEntryHeld(file_cache, cache_dir, key, ts[1]),
                                    !.disk_before =
                                        DiskHolds(file_cache, cache_dir, key, ts[1]),
                                    !.after = IF StoredJustBefore("cached_dataframe", key)
                                              THEN "stored" ELSE "none",
                                    !.after_t = IF StoredJustBefore("cached_dataframe", key)
                                                THEN last.set_t ELSE 0]
            /\ UNCHANGED <<instants, memory_cache, set_time, disk_set, manager,
                   db_connector, db_call>>

NextWrap ==
    \/ Tick
    \/ \E call \in WrapCalls : \E result \in QueryResults : CallCachedQuery(call, result)
    \/ \E call \in FrameCalls : \E result \in FrameResults : CallCachedDataframe(call, result)

\* CACHE_MANAGER on an empty ./cache, the clock showing the start and the
\* first instant past each tier's TTL
InitWrap ==
    /\ now = 0
    /\ instants = {0, MANAGER_TTL_SECONDS + 1, MANAGER_TTL_HOURS * SECONDS_PER_HOUR + 1}
    /\ memory_cache = TTLCache_init(MANAGER_TTL_SECONDS, MANAGER_MAX_SIZE)
    /\ file_cache = FileCache_init(NoDir, MANAGER_TTL_HOURS)
    /\ cache_dir = NoDir
    /\ set_time = <<>>
    /\ disk_set = <<>>
    /\ manager = "bound"
    /\ db_connector = DatabaseConnector_init
    /\ db_call = NoCall
    /\ last = NoOp

SpecWrap == InitWrap /\ [][NextWrap]_vars

----------------------------------------------------------------------------
(* Functions decorated with a TTL of their own; the results are lists and  *)
(* frames.  last.ttl is the decorator's argument in seconds, last.after_t  *)
(* the instant the call just before stored the result under the same key.  *)

DecoratedQuery(ttl_seconds, call) ==
    \E ts \in Readings(6) :
        LET key == WrapperKeys[call]
            r == cached_query(ttl_seconds, memory_cache, key, ListOf(1), ts)
        IN  /\ memory_cache' = r.memory_cache
            /\ now' = r.t
            /\ set_time' = SetTimes(memory_cache', IF r.invoked = 1 THEN key ELSE NoKey,
                                    ts[5])
            /\ last' = [NoOp EXCEPT !.op = "cached_query", !.key = key, !.call = call,
                                    !.ret = r.ret, !.invoked = r.invoked,
                                    !.t = ts[2], !.set_t = ts[5], !.ttl = ttl_seconds,
                                    !.after = IF StoredJustBefore("cached_query", key)
                                              THEN "stored" ELSE "none",
                                    !.after_t = IF StoredJustBefore("cached_query", key)
                                                THEN last.set_t ELSE 0]
            /\ UNCHANGED <<instants, file_cache, cache_dir, disk_set, manager,
                   db_connector, db_call>>

DecoratedDataframe(ttl_hours, call) ==
    \E ts \in Readings(4) :
        LET key == WrapperKeys[call]
            r == cached_dataframe(ttl_hours, file_cache, cache_dir, key, Frame, ts)
        IN  /\ file_cache' = r.file_cache
            /\ cache_dir' = r.cache_dir
            /\ now' = r.t
            /\ last' = [NoOp EXCEPT !.op = "cached_dataframe", !.key = key, !.call = call,
                                    !.ret = r.ret, !.exc = r.exc, !.invoked = r.invoked,
                                    !.t = ts[1], !.set_t = ts[3],
                                    !.ttl = ttl_hours * SECONDS_PER_HOUR,
                                    !.after = IF StoredJustBefore("cached_dataframe", key)
                                              THEN "stored" ELSE "none",
                                    !.after_t = IF StoredJustBefore("cached_dataframe", key)
                                                THEN last.set_t ELSE 0]
            /\ UNCHANGED <<instants, memory_cache, set_time, disk_set, manager,
                   db_connector, db_call>>

NextWrapTtl ==
    \/ Tick
    \/ \E call \in WrapCalls : DecoratedQuery(DecoratorTtlSeconds, call)
    \/ \E call \in FrameCalls : DecoratedDataframe(DecoratorTtlHours, call)

\* CACHE_MANAGER on an empty ./cache, the clock showing the start and the
\* first instant past each decorator's TTL
InitWrapTtl ==
    /\ now = 0
    /\ instants = {0, DecoratorTtlSeconds + 1, DecoratorTtlHours * SECONDS_PER_HOUR + 1}
    /\ memory_cache = TTLCache_init(MANAGER_TTL_SECONDS, MANAGER_MAX_SIZE)
    /\ file_cache = FileCache_init(NoDir, MANAGER_TTL_HOURS)
    /\ cache_dir = NoDir
    /\ set_time = <<>>
    /\ disk_set = <<>>
    /\ manager = "bound"
    /\ db_connector = DatabaseConnector_init
    /\ db_call = NoCall
    /\ last = NoOp

SpecWrapTtl == InitWrapTtl /\ [][NextWrapTtl]_vars

----------------------------------------------------------------------------
(* BaseConfig of src/src/core/base_config.py: a configuration loaded from  *)
(* a YAML file, read with get(key_path, default).  A configuration is a    *)
(* tree: a dict node with items, name -> node, or a leaf with a value.     *)

ConfigLeaf(v) == [kind |-> "leaf", v |-> v, items |-> <<>>]
ConfigDict(items) == [kind |-> "dict", v |-> "", items |-> items]
ConfigNone == [kind |-> "none", v |-> "", items |-> <<>>]

\* _get_default_config of the subclass under test (tests/test_config.py)
DefaultConfig ==
    ConfigDict([n \in {"database", "features"} |->
        IF n = "database"
        THEN ConfigDict([k \in {"host", "port"} |->
                            ConfigLeaf(IF k = "host" THEN "localhost" ELSE "5432")])
        ELSE ConfigDict([k \in {"caching"} |-> ConfigLeaf("True")])])

\* the keys of the default configuration, in dot notation
DefaultKeyPaths ==
    {<<"database", ".", "host">>, <<"database", ".", "port">>,
     <<"features", ".", "caching">>}

\* key_path.split('.') on a path given as names and dots
RECURSIVE Split(_)
Split(key_path) ==
    LET dots == {i \in DOMAIN key_path : key_path[i] = "."}
        name(part) == IF part = <<>> THEN "" ELSE part[1]
    IN  IF dots = {} THEN <<name(key_path)>>
        ELSE <<name(SubSeq(key_path, 1, Min(dots) - 1))>>
             \o Split(SubSeq(key_path, Min(dots) + 1, Len(key_path)))

\* the YAML file at config_path: absent, empty, not YAML, or a mapping
AbsentFile == [state |-> "absent", doc |-> ConfigNone]
EmptyFile == [state |-> "empty", doc |-> ConfigNone]
InvalidFile == [state |-> "invalid", doc |-> ConfigNone]
MappingFile(doc) == [state |-> "mapping", doc |-> doc]

\* the mapping of a file that defines the keys `paths` of the default
\* configuration, each with a value of its own
FileDoc(paths) ==
    LET sections == {Split(p)[1] : p \in paths}
    IN  ConfigDict([n \in sections |->
            ConfigDict([k \in {Split(p)[2] : p \in {q \in paths : Split(q)[1] = n}} |->
                            ConfigLeaf("file")])])

ConfigFiles ==
    {AbsentFile, EmptyFile, InvalidFile}
        \cup {MappingFile(FileDoc(paths)) : paths \in SUBSET DefaultKeyPaths \ {{}}}

\* BaseConfig._load_config: yaml.safe_load gives None on an empty file and
\* raises YAMLError on an invalid one
_load_config(file) ==
    IF file.state = "mapping" THEN file.doc ELSE DefaultConfig

\* the loop of BaseConfig.get: value = value[key] for each key; found is
\* FALSE where it raises KeyError (no such name) or TypeError (not a dict)
RECURSIVE Walk(_, _)
Walk(value, keys) ==
    IF keys = <<>> THEN [found |-> TRUE, value |-> value]
    ELSE IF value.kind = "dict" /\ Head(keys) \in DOMAIN value.items
    THEN Walk(value.items[Head(keys)], Tail(keys))
    ELSE [found |-> FALSE, value |-> ConfigNone]

\* BaseConfig.get on the loaded configuration
BaseConfig_get(config, key_path, default) ==
    LET w == Walk(config, Split(key_path))
    IN  IF w.found THEN w.value ELSE default

ConfigKeyPaths ==
    DefaultKeyPaths
        \cup {<<"database">>, <<"nonexistent", ".", "key">>,
              <<"database", ".", "host", ".", "x">>}

ConfigDefaults == {ConfigNone, ConfigLeaf("default")}

\* config = TestConfig(config_path, "test"); config.get(key_path, default)
ConfigGet(file, key_path, default) ==
    /\ Unobserved
    /\ last' = [NoOp EXCEPT !.op = "config.get", !.config_file = file,
                            !.key_path = key_path, !.default = default,
                            !.config_ret = BaseConfig_get(_load_config(file), key_path,
                                                          default)]

NextConfig ==
    \E file \in ConfigFiles : \E key_path \in ConfigKeyPaths :
        \E default \in ConfigDefaults : ConfigGet(file, key_path, default)

SpecConfig == InitKey /\ [][NextConfig]_vars

----------------------------------------------------------------------------
(* Calls on a DatabaseConnector.  connect is one step; a call of           *)
(* execute_query_with_retry is a step for each execute_query and each      *)
(* reconnect of its loop, the database answering each as it will.          *)

ConnectOutcomes ==
    {ConnectOutcome(TRUE, NoError),
     ConnectOutcome(TRUE, Error("DatabaseConnectionError", 0, {})),
     ConnectOutcome(FALSE, Error("DatabaseError", 0, {})),
     ConnectOutcome(FALSE, Error("DatabaseError", 0, {"authentication"})),
     ConnectOutcome(FALSE, Error("DatabaseError", 0, {"account"})),
     ConnectOutcome(FALSE, Error("InterfaceError", 0, {})),
     ConnectOutcome(FALSE, Error("InterfaceError", 0, {"network"})),
     ConnectOutcome(FALSE, Error("InterfaceError", 0, {"timeout"})),
     ConnectOutcome(FALSE, Error("Exception", 0, {}))}

QueryOutcomes ==
    {NoError,
     Error("ProgrammingError", COMPILATION_ERRNO, {}),
     Error("ProgrammingError", 0, {"does not exist"}),
     Error("ProgrammingError", 0, {"timeout"}),
     Error("ProgrammingError", 0, {}),
     Error("DatabaseError", 0, {}),
     Error("InterfaceError", 0, {}),
     Error("Exception", 0, {})}

Pings == {NoError, Error("InterfaceError", 0, {})}

InitDb ==
    /\ now = 0
    /\ instants = {0}
    /\ memory_cache = TTLCache_init(DEFAULT_TTL_SECONDS, 1)
    /\ file_cache = FileCacheOff
    /\ cache_dir = NoDir
    /\ set_time = <<>>
    /\ disk_set = <<>>
    /\ manager = "bound"
    /\ db_connector = DatabaseConnector_init
    /\ db_call = NoCall
    /\ last = NoOp

DbFrame ==
    UNCHANGED <<now, instants, memory_cache, file_cache, cache_dir, set_time, disk_set,
                manager, last>>

\* connector.connect()
Connect(outcomes) ==
    LET c == DatabaseConnector_connect(db_connector, outcomes)
    IN  /\ db_call.pc = "idle"
        /\ db_connector' = c.self
        /\ db_call' = [NoCall EXCEPT !.op = "connect", !.ret = c.ret, !.exc = c.exc,
                                     !.tried = SubSeq(outcomes, 1, c.tried)]
        /\ DbFrame

\* connector.close()
Close ==
    /\ db_call.pc = "idle"
    /\ db_connector' = DatabaseConnector_close(db_connector)
    /\ db_call' = [NoCall EXCEPT !.op = "close"]
    /\ DbFrame

\* connector.execute_query_with_retry(query, max_retries=...) is entered
ExecuteQueryWithRetry(max_retries) ==
    /\ db_call.pc = "idle"
    /\ db_call' = [NoCall EXCEPT !.op = "execute_query_with_retry", !.pc = "attempt",
                                 !.max_retries = max_retries]
    /\ UNCHANGED db_connector
    /\ DbFrame

\* one pass of the loop: execute_query and the except clause it ends in
RetryAttempt(ping, o) ==
    LET r == execute_query(db_connector, ping, o)
        e == [exc |-> r.exc, msg |-> r.msg]
        did == [db_call EXCEPT !.events =
                    Append(@, [ev |-> "execute_query", exc |-> r.exc, msg |-> r.msg,
                               met |-> IF r.executed THEN o ELSE NoError])]
        raised(x) == [did EXCEPT !.pc = "idle", !.exc = x.exc, !.msg = x.msg]
    IN  /\ db_call.pc = "attempt"
        /\ db_connector' = r.self
        /\ db_call' =
            IF r.exc = "none" THEN [did EXCEPT !.pc = "idle", !.ret = r.ret]
            ELSE IF r.exc = "DatabaseConnectionError"
            THEN IF db_call.attempt < db_call.max_retries
                 THEN [did EXCEPT !.pc = "reconnect", !.last_exception = e]
                 ELSE raised(e)
            ELSE IF RaisedAtOnce(r.msg) THEN raised(e)
            ELSE IF db_call.attempt < db_call.max_retries
            THEN [did EXCEPT !.attempt = @ + 1, !.last_exception = e]
            ELSE raised(e)
        /\ DbFrame

\* self.connect() in the except clause; whether it raises or not, the loop
\* goes on to its next pass
RetryReconnect(outcomes) ==
    LET c == DatabaseConnector_connect(db_connector, outcomes)
    IN  /\ db_call.pc = "reconnect"
        /\ db_connector' = c.self
        /\ db_call' = [db_call EXCEPT !.pc = "attempt", !.attempt = @ + 1,
                                      !.events = Append(@, [ev |-> "connect", exc |-> c.exc,
                                                            msg |-> {}, met |-> NoError])]
        /\ DbFrame

NextDb ==
    \/ \E outcomes \in [1 .. CONNECT_MAX_RETRIES -> ConnectOutcomes] : Connect(outcomes)
    \/ Close
    \/ \E max_retries \in 0 .. QUERY_MAX_RETRIES : ExecuteQueryWithRetry(max_retries)
    \/ \E ping \in Pings : \E o \in QueryOutcomes : RetryAttempt(ping, o)
    \/ \E outcomes \in [1 .. CONNECT_MAX_RETRIES -> ConnectOutcomes] :
            RetryReconnect(outcomes)

SpecDb == InitDb /\ [][NextDb]_vars

----------------------------------------------------------------------------
(* Claims about the memory tier, checked under SpecMem *)

\* C1: set(k, v) followed immediately by get(k), the expiry check of the get
\* made no more than TTL after the timestamp of the set, returns v.
C1_RoundTrip ==
    (/\ last.op = "get"
     /\ last.after = "set"
     /\ last.t - last.after_t <= memory_cache.ttl_seconds)
        => (last.hit /\ last.ret = last.after_value)

\* the get comes exactly TTL after the set and is a hit
C1_Witness ==
    /\ last.op = "get"
    /\ last.after = "set"
    /\ last.t - last.after_t = memory_cache.ttl_seconds
    /\ last.hit
    /\ last.ret = ListOf(2)

\* C2: a get that returns a value returns one whose key was set no more than
\* TTL before the get's expiry check; any other get returns absent (None).
C2_Expiry ==
    last.op = "get" =>
        IF last.hit
        THEN /\ last.key \in DOMAIN set_time
             /\ last.t - set_time[last.key] <= memory_cache.ttl_seconds
        ELSE last.ret = None

\* an entry that survived the sweep of a get, expired by the time of the
\* get's own check: still stored, reported absent
C2_Witness ==
    /\ last.op = "get"
    /\ ~last.hit
    /\ last.key \in DOMAIN memory_cache.cache
    /\ last.t - set_time[last.key] > memory_cache.ttl_seconds

\* C3: a set of a key the table does not hold, into a table that holds
\* max_size unexpired entries, removes the least recently accessed entry and
\* leaves max_size entries (max_size 2: set a, set b, get a, set c leaves a, c).
C3_LruEviction ==
    (/\ last.op = "set"
     /\ last.fresh
     /\ last.count = memory_cache.max_size)
        => /\ last.lru \notin DOMAIN memory_cache.cache
           /\ Cardinality(DOMAIN memory_cache.cache) = memory_cache.max_size

\* C4: the table never holds more than max_size entries.
C4_CapacityBound ==
    Cardinality(DOMAIN memory_cache.cache) <= memory_cache.max_size

\* C16: a get never changes a creation timestamp, which stays the instant
\* of the key's latest set whatever gets hit in between, and a get that hits
\* comes no more than TTL after that instant.
C16_AbsoluteTtl ==
    /\ \A k \in DOMAIN memory_cache.cache :
            memory_cache.cache[k].timestamp = set_time[k]
    /\ (last.op = "get" /\ last.hit) =>
            last.t - memory_cache.cache[last.key].timestamp <= memory_cache.ttl_seconds

\* a get hits later than the set: the access time moves, the timestamp stays
C16_Witness ==
    /\ last.op = "get"
    /\ last.hit
    /\ \E i \in DOMAIN memory_cache.access_times :
            /\ memory_cache.access_times[i].key = last.key
            /\ memory_cache.access_times[i].time > memory_cache.cache[last.key].timestamp
            /\ memory_cache.cache[last.key].timestamp = set_time[last.key]

\* C21: the entry table and the access-time table have the same keys, and
\* the access-time table has one record for each of them.
C21_AccessRecord ==
    /\ AccessKeys(memory_cache.access_times) = DOMAIN memory_cache.cache
    /\ Len(memory_cache.access_times) = Cardinality(DOMAIN memory_cache.cache)

\* a set whose eviction removed every entry the sweep had left, more than
\* max_size of them: the tables hold the key just set and nothing else
C21_Witness ==
    /\ last.op = "set"
    /\ last.count > memory_cache.max_size
    /\ DOMAIN memory_cache.cache = {last.key}
    /\ AccessKeys(memory_cache.access_times) = {last.key}

\* self._access_times[key]
AccessTimeOf(self, key) ==
    LET i == CHOOSE j \in DOMAIN self.access_times : self.access_times[j].key = key
    IN  self.access_times[i].time

\* C23: in every set, the eviction for capacity, when it removes anything,
\* removes exactly count - max_size + 1 entries of the count entries the
\* expiry sweep left, each with an access time no later than that of every
\* entry it leaves; the table after the set holds what it left and the key set.
C23_LruVictimChoice ==
    [][\A ts \in Readings(3) :
            (last'.op = "set" /\ MemSetAt(last'.key, last'.value, ts)) =>
                LET swept == _evict_expired(memory_cache, ts[1])
                    count == Cardinality(DOMAIN swept.cache)
                    kept == DOMAIN _evict_lru(swept).cache
                    removed == DOMAIN swept.cache \ kept
                IN  /\ DOMAIN memory_cache'.cache = kept \cup {last'.key}
                    /\ removed # {} =>
                        /\ Cardinality(removed) = count - memory_cache.max_size + 1
                        /\ \A r \in removed : \A k \in kept :
                                AccessTimeOf(swept, r) <= AccessTimeOf(swept, k)]_vars

\* a set that evicted for capacity and left an entry of another key
C23_Witness ==
    /\ last.op = "set"
    /\ last.count > memory_cache.max_size
    /\ \E k \in DOMAIN memory_cache.cache : k # last.key

\* no entry of the table is older than its TTL at the instant t
SweptAt(self, t) ==
    \A k \in DOMAIN self.cache : t - self.cache[k].timestamp <= self.ttl_seconds

\* C24: after a get or a set, whichever its key, the table holds no entry
\* that was older than the TTL when the call read the clock for its sweep;
\* delete removes its own key and nothing else, expired or not, and stats
\* removes nothing.
C24_SweepOnGetAndSet ==
    [][/\ \A ts \in Readings(3) :
            (last'.op = "get" /\ MemGetAt(last'.key, ts)) => SweptAt(memory_cache', ts[1])
       /\ \A ts \in Readings(3) :
            (last'.op = "set" /\ MemSetAt(last'.key, last'.value, ts))
                => SweptAt(memory_cache', ts[1])
       /\ (last'.op = "delete" /\ MemDelete(last'.key)) =>
            /\ DOMAIN memory_cache'.cache = DOMAIN memory_cache.cache \ {last'.key}
            /\ \A k \in DOMAIN memory_cache'.cache :
                    memory_cache'.cache[k] = memory_cache.cache[k]
       /\ (last'.op = "clear" /\ MemClear) => DOMAIN memory_cache'.cache = {}
       /\ (last'.op = "stats" /\ MemStats) => memory_cache' = memory_cache]_vars

\* a get of a key the table does not hold found two entries and left none:
\* its sweep removed the expired entries of other keys
C24_Witness ==
    /\ last.op = "get"
    /\ last.count = 2
    /\ last.key \notin DOMAIN set_time
    /\ DOMAIN memory_cache.cache = {}

\* C26: a set of a key the table holds, not older than its TTL, removes no
\* other entry that is not older than its TTL.
C26_ResetKeepsOthers ==
    [][\A ts \in Readings(3) :
            (/\ last'.op = "set"
             /\ MemSetAt(last'.key, last'.value, ts)
             /\ last'.key \in DOMAIN _evict_expired(memory_cache, ts[1]).cache)
                => \A k \in DOMAIN _evict_expired(memory_cache, ts[1]).cache :
                        k \in DOMAIN memory_cache'.cache]_vars

\* C18 (SpecAlias): what get(k) returns is not changed by the caller mutating
\* the object it passed to set or the object an earlier get returned: a get
\* that hits after such mutations returns the value set was given.
C18_NoLiveHandle ==
    (last.op = "get" /\ last.hit /\ last.after = "mutate") => last.ret = last.after_value

----------------------------------------------------------------------------
(* Claims about the Manager, checked under Spec *)

\* C5: cache_query_result(q, r, p) followed immediately by
\* get_cached_query_result(q, p), within the memory TTL, returns r.
C5_SetThenGet ==
    (/\ last.op = "get_cached_query_result"
     /\ last.after = "cache_query_result"
     /\ last.args = last.after_args
     /\ last.t - last.after_t <= MANAGER_TTL_SECONDS)
        => last.ret = last.after_value

\* C6: the lookup reads the memory tier first; when the memory tier holds an
\* unexpired value it returns that value and does not touch the disk tier;
\* otherwise it reads the disk tier second and returns what the disk tier
\* holds, unexpired and readable, under the derived key (None if nothing).
C6_ProbeOrder ==
    (last.op = "get_cached_query_result" /\ last.exc = "none") =>
        /\ last.probes # <<>>
        /\ last.probes[1] = "memory"
        /\ IF last.mem_before # None
           THEN /\ last.probes = <<"memory">>
                /\ last.ret = last.mem_before
                /\ last.disk_same
           ELSE /\ last.probes = <<"memory", "disk">>
                /\ last.ret = last.disk_before

\* a value held by the disk tier only is returned by the lookup
C6_Witness ==
    /\ last.op = "get_cached_query_result"
    /\ last.mem_before = None
    /\ last.disk_before = ListOf(100)
    /\ last.ret = ListOf(100)
    /\ last.probes = <<"memory", "disk">>

\* C7: cache_query_result stores a list of fewer than 100 elements in the
\* memory tier and leaves the disk tier as it was; it stores any other result
\* in the disk tier and leaves the memory tier as it was.
C7_TierSelection ==
    (last.op = "cache_query_result" /\ last.exc = "none") =>
        IF last.value.kind = "list" /\ last.value.len < 100
        THEN /\ last.tier = "memory"
             /\ last.disk_same
             /\ MemoryHolds(memory_cache, last.key, last.t) = last.value
             /\ set_time[last.key] = last.t
        ELSE /\ last.tier = "disk"
             /\ last.mem_same
             /\ DiskHolds(file_cache, cache_dir, last.key, last.t) = last.value

\* a list of exactly 100 elements goes to the disk tier while the memory
\* tier holds an entry, which stays as it was
C7_Witness ==
    /\ last.op = "cache_query_result"
    /\ last.value = ListOf(100)
    /\ last.tier = "disk"
    /\ last.mem_same
    /\ DOMAIN memory_cache.cache # {}
    /\ DiskHolds(file_cache, cache_dir, last.key, last.t) = ListOf(100)

\* C9: cache_query_result and get_cached_query_result never raise because of
\* their arguments.
C9_NeverRaises ==
    last.op \in {"cache_query_result", "get_cached_query_result"} => last.exc = "none"

\* a text without the whitespace around it
Max(S) == CHOOSE x \in S : \A y \in S : x >= y
Trimmed(text) ==
    LET inked == {i \in DOMAIN text : text[i] \notin Whitespace}
    IN  IF inked = {} THEN <<>> ELSE SubSeq(text, Min(inked), Max(inked))

\* two (query, params) that differ at most by whitespace around the query and
\* by an absent parameter list standing for an empty one
SameRequest(c1, c2) ==
    /\ Trimmed(c1[1]) = Trimmed(c2[1])
    /\ c1[2].items = c2[2].items

\* C10: a result stored with cache_query_result(q, r, p) is returned by the
\* immediately following get_cached_query_result(q', p') for another writing
\* (q', p') of the same request.
C10_VariantsCollide ==
    (/\ last.op = "get_cached_query_result"
     /\ last.after = "cache_query_result"
     /\ last.args # last.after_args
     /\ SameRequest(last.args, last.after_args)
     /\ last.t - last.after_t <= MANAGER_TTL_SECONDS)
        => last.ret = last.after_value

\* the keys of two writings of the same request are the same key
C10_KeysCollide ==
    \A c1, c2 \in DOMAIN QueryCacheKeys :
        SameRequest(c1, c2) => QueryCacheKeys[c1] = QueryCacheKeys[c2]

----------------------------------------------------------------------------
(* Claims about key derivation, checked under SpecKey *)

\* the keyword arguments of two calls are the same, in whatever order
SameKwargs(k1, k2) ==
    {k1[i] : i \in DOMAIN k1} = {k2[i] : i \in DOMAIN k2}

SameWrapperCall(c1, c2) ==
    c1[1] = c2[1] /\ c1[2] = c2[2] /\ SameKwargs(c1[3], c2[3])

\* C8, with "different" read after normalisation: the same operation with
\* the same named argument values has the same outcome (the same key, or the
\* same error) whatever the order of the keyword arguments; and two
\* derivations that both return, of argument values that still differ once
\* the query text is trimmed and an absent parameter list is read as the
\* empty list, give different canonical forms and different keys.
C8_KeyStability ==
    /\ (last.op = "wrapper" =>
            /\ SameWrapperCall(last.call, last.call2) => last.key = last.key2
            /\ ~SameWrapperCall(last.call, last.call2) =>
                    (last.text # last.text2 /\ last.key # last.key2))
    /\ (last.op = "get_profiling_cache_key" =>
            /\ last.call = last.call2 => last.key = last.key2
            /\ last.call # last.call2 =>
                    (last.text # last.text2 /\ last.key # last.key2))
    /\ (last.op = "get_query_cache_key" =>
            /\ SameRequest(last.call, last.call2) =>
                    (last.key = last.key2 /\ last.exc = last.exc2)
            /\ (/\ ~SameRequest(last.call, last.call2)
                /\ last.exc = "none" /\ last.exc2 = "none") =>
                    (last.text # last.text2 /\ last.key # last.key2))

\* the keyword arguments given in two different orders, the keys the same
C8_Witness ==
    /\ last.op = "wrapper"
    /\ last.call[3] # last.call2[3]
    /\ Len(last.call[3]) = 2
    /\ SameWrapperCall(last.call, last.call2)
    /\ last.key = last.key2

\* C8 to the letter: the same for every ordering, and any two different
\* argument values give different canonical forms.
C8_Original ==
    /\ C8_KeyStability
    /\ ((last.op = "get_query_cache_key" /\ last.exc = "none" /\ last.exc2 = "none") =>
            (last.call # last.call2 => last.text # last.text2))

\* C15: after clear_all_caches no entry remains in either tier, and the
\* lookup that follows it, for any query and parameter list, returns absent.
C15_FullClear ==
    /\ last.op = "clear_all_caches" =>
            /\ DOMAIN memory_cache.cache = {}
            /\ DOMAIN file_cache.metadata = {}
            /\ DOMAIN cache_dir.files = {}
    /\ (/\ last.op = "get_cached_query_result"
        /\ last.exc = "none"
        /\ last.prev = "clear_all_caches")
            => last.ret = None

----------------------------------------------------------------------------
(* Claims about the disk tier *)

\* C11 (SpecDisk): after set(k, v), the first get(k) of a fresh instance
\* constructed on the same directory, made no more than the disk TTL after
\* the set, returns v.
C11_PersistsAcrossRestart ==
    (/\ last.op = "disk.get"
     /\ last.prev = "restart"
     /\ last.key \in DOMAIN disk_set
     /\ last.t - disk_set[last.key].t <= DiskTtl)
        => (last.exc = "none" /\ last.ret = disk_set[last.key].value)

\* a fresh instance returns, exactly TTL after the set, the frame set before
\* the restart
C11_Witness ==
    /\ last.op = "disk.get"
    /\ last.prev = "restart"
    /\ last.key \in DOMAIN disk_set
    /\ last.t - disk_set[last.key].t = DiskTtl
    /\ last.ret = Frame

\* the payload file of key is missing or unreadable
PayloadDamaged(key) ==
    \/ _get_cache_key(key) \notin DOMAIN cache_dir.files
    \/ ~Readable(cache_dir.files[_get_cache_key(key)])

\* C12 (SpecDiskFaults): with payload files corrupted or deleted behind the
\* cache's back (the metadata table being well formed), get returns without
\* raising, returns absent for a key whose payload is missing or unreadable,
\* and returns the stored value for every unexpired key whose payload is
\* intact, before and after a failed get of another key.
C12_FaultIsolation ==
    (last.op = "disk.get" /\ RaisingKeys(file_cache) = {}) =>
        /\ last.exc = "none"
        /\ PayloadDamaged(last.key) => last.ret = None
        /\ (/\ ~PayloadDamaged(last.key)
            /\ last.key \in DOMAIN disk_set
            /\ last.t - disk_set[last.key].t <= DiskTtl)
                => last.ret = disk_set[last.key].value

\* a get that hits right after the get of another key failed on its
\* corrupted payload file
C12_Witness ==
    /\ last.op = "disk.get"
    /\ RaisingKeys(file_cache) = {}
    /\ last.hit
    /\ last.prev = "disk.get"
    /\ last.prev_key # last.key
    /\ ~last.prev_hit
    /\ last.prev_key \in DOMAIN disk_set
    /\ _get_cache_key(last.prev_key) \in DOMAIN cache_dir.files
    /\ ~Readable(cache_dir.files[_get_cache_key(last.prev_key)])
    /\ last.t - disk_set[last.prev_key].t <= DiskTtl

\* C13 (SpecDiskFaults): get, set, delete, clear_expired and stats of the disk
\* tier return normally whatever the payload files and the metadata table hold.
C13_NeverPropagates ==
    last.op \in {"disk.get", "disk.set", "disk.delete", "disk.clear_expired", "disk.stats"}
        => last.exc = "none"

\* C19 (SpecDisk): after clear_expired, every entry older than the disk TTL
\* has neither payload file nor metadata record, every other entry keeps both
\* and is returned by the get that follows; get and set never remove the
\* payload file or the record of another key.
C19_ClearExpiredExact ==
    /\ last.op = "disk.clear_expired" =>
            \A k \in DOMAIN last.hist :
                LET ck == _get_cache_key(k)
                IN  IF last.t - last.hist[k].t > DiskTtl
                    THEN /\ ck \notin DOMAIN cache_dir.files
                         /\ ck \notin DOMAIN file_cache.metadata
                         /\ ck \notin DOMAIN _load_metadata(cache_dir)
                    ELSE /\ ck \in DOMAIN cache_dir.files
                         /\ ck \in DOMAIN file_cache.metadata
                         /\ Unpickle(cache_dir.files[ck]) = last.hist[k].value
    /\ (/\ last.op = "disk.get"
        /\ last.prev = "disk.clear_expired"
        /\ last.key \in DOMAIN disk_set
        /\ last.t - disk_set[last.key].t <= DiskTtl)
            => last.ret = disk_set[last.key].value
    /\ last.op \in {"disk.get", "disk.set"} => last.others_kept

\* clear_expired at TTL + 1 removes the entry set at 0 and keeps the entry
\* set at 1, whose age is exactly the TTL
C19_Witness ==
    /\ last.op = "disk.clear_expired"
    /\ \E k1, k2 \in DOMAIN last.hist :
            /\ last.t - last.hist[k1].t > DiskTtl
            /\ last.t - last.hist[k2].t = DiskTtl
            /\ _get_cache_key(k1) \notin DOMAIN cache_dir.files
            /\ _get_cache_key(k2) \in DOMAIN cache_dir.files

\* C22 (SpecDiskFailedSet): with no I/O failure, the storage keys that have
\* a metadata record, in the instance and in cache_metadata.json once it is
\* written, are the storage keys that have a payload file.  (It holds under
\* SpecDisk, where every value set can be pickled.)
C22_MetadataIffPayload ==
    /\ DOMAIN file_cache.metadata = DOMAIN cache_dir.files
    /\ JsonLoads(cache_dir.metadata_file) =>
            DOMAIN JsonLoad(cache_dir.metadata_file) = DOMAIN cache_dir.files

\* C27 (SpecDiskFailedSet): a get that comes right after a set of its key
\* failed on a value that cannot be serialized returns the value stored
\* under the key before, when that is not older than the TTL.
C27_FailedSetKeepsEntry ==
    (/\ last.op = "disk.get"
     /\ last.prev = "disk.set"
     /\ last.prev_key = last.key
     /\ ~Picklable(last.after_value)
     /\ last.key \in DOMAIN disk_set
     /\ last.t - disk_set[last.key].t <= DiskTtl)
        => last.ret = disk_set[last.key].value

\* C25 (SpecShared): after A.set(k1, v1) and B.set(k2, v2) on two instances
\* constructed on the same empty directory, cache_metadata.json has no
\* record for k1 while the payload file of k1 exists, and a get(k1) on a
\* fresh instance that comes next is a miss.
C25_LostMetadataUpdate ==
    \A i, j \in Instances : \A k1, k2 \in DiskKeys :
        (i # j /\ k1 # k2) =>
            LET sets == <<[inst |-> i, op |-> "set", key |-> k1],
                          [inst |-> j, op |-> "set", key |-> k2]>>
            IN  /\ last.hist = sets =>
                    /\ _get_cache_key(k1) \notin DOMAIN JsonLoad(cache_dir.metadata_file)
                    /\ _get_cache_key(k2) \in DOMAIN JsonLoad(cache_dir.metadata_file)
                    /\ _get_cache_key(k1) \in DOMAIN cache_dir.files
                /\ last.hist = Append(sets, [inst |-> "fresh", op |-> "get", key |-> k1]) =>
                    /\ last.ret = None
                    /\ _get_cache_key(k1) \in DOMAIN cache_dir.files
                    /\ Readable(cache_dir.files[_get_cache_key(k1)])

\* A.set(a, v1), B.set(b, v2), then a fresh instance misses a
C25_Witness ==
    /\ last.hist = <<[inst |-> "A", op |-> "set", key |-> <<"a">>],
                     [inst |-> "B", op |-> "set", key |-> <<"b">>],
                     [inst |-> "fresh", op |-> "get", key |-> <<"a">>]>>
    /\ ~last.hit
    /\ _get_cache_key(<<"a">>) \in DOMAIN cache_dir.files

----------------------------------------------------------------------------
(* Claims about start-up, checked under SpecBoot *)

\* C14: constructing the Cache Manager succeeds also when the cache
\* directory cannot be created, and the calls routed to the memory tier
\* then work: they return normally, and a result stored is returned by the
\* lookup that follows within the memory TTL.
C14_MemoryOnlyDegradation ==
    /\ last.op = "CacheManager" => (last.exc = "none" /\ manager = "bound")
    /\ last.op \in {"cache_query_result", "get_cached_query_result"} => last.exc = "none"
    /\ (/\ last.op = "get_cached_query_result"
        /\ last.after = "cache_query_result"
        /\ last.args = last.after_args
        /\ last.t - last.after_t <= MANAGER_TTL_SECONDS)
            => last.ret = last.after_value

----------------------------------------------------------------------------
(* Claims about the memoization wrappers, checked under SpecWrap *)

\* C17: a wrapped call returns the cached value without invoking the function
\* when its tier holds an unexpired entry for the identity, and otherwise
\* invokes it once, stores the result and returns it; the second of two
\* consecutive calls with the same identity, made within the TTL of what the
\* first stored, does not invoke the function, whatever it returns.
C17_ComputeIfAbsent ==
    /\ last.op = "cached_query" =>
            IF last.held
            THEN last.invoked = 0 /\ last.ret = last.mem_before
            ELSE /\ last.invoked = 1
                 /\ last.ret = last.value
                 /\ last.key \in DOMAIN memory_cache.cache
                 /\ memory_cache.cache[last.key].value = last.value
    /\ last.op = "cached_dataframe" =>
            IF last.held
            THEN last.invoked = 0 /\ last.ret = last.disk_before
            ELSE /\ last.invoked = 1
                 /\ last.ret = last.value
                 /\ DiskEntryHeld(file_cache, cache_dir, last.key, last.set_t)
                 /\ Unpickle(cache_dir.files[_get_cache_key(last.key)]) = last.value
    /\ (/\ last.op = "cached_query"
        /\ last.after = "stored"
        /\ last.t - last.after_t <= MANAGER_TTL_SECONDS) => last.invoked = 0
    /\ (/\ last.op = "cached_dataframe"
        /\ last.after = "stored"
        /\ last.t - last.after_t <= MANAGER_TTL_HOURS * SECONDS_PER_HOUR) => last.invoked = 0

\* C17 for the results that are not None
C17_ComputeIfAbsentNotNone ==
    /\ (/\ last.op = "cached_query"
        /\ last.held
        /\ last.mem_before # None) => (last.invoked = 0 /\ last.ret = last.mem_before)
    /\ (/\ last.op = "cached_dataframe"
        /\ last.held
        /\ last.disk_before # None) => (last.invoked = 0 /\ last.ret = last.disk_before)
    /\ (last.op \in {"cached_query", "cached_dataframe"} /\ ~last.held) =>
            (last.invoked = 1 /\ last.ret = last.value)

\* C28 (SpecWrapTtl): a call of a function decorated with
\* cached_query(ttl_seconds = t) or cached_dataframe(ttl_hours = h), coming
\* more than t seconds (h hours) after the call just before it stored the
\* result under the same key, executes the function again.
C28_WrapperTtlBoundsReuse ==
    (/\ last.op \in {"cached_query", "cached_dataframe"}
     /\ last.after = "stored"
     /\ last.t - last.after_t > last.ttl)
        => last.invoked = 1

----------------------------------------------------------------------------
(* Claims about the configuration loader, checked under SpecConfig *)

\* C20: with a configuration loaded from a file that defines only some keys
\* of the default configuration, get(key), no default given, returns the
\* file's value for a key the file defines and the default configuration's
\* value for a key it does not.
C20_ConfigFallback ==
    (/\ last.op = "config.get"
     /\ last.config_file.state = "mapping"
     /\ last.key_path \in DefaultKeyPaths
     /\ last.default = ConfigNone)
        => last.config_ret =
                IF Walk(last.config_file.doc, Split(last.key_path)).found
                THEN Walk(last.config_file.doc, Split(last.key_path)).value
                ELSE Walk(DefaultConfig, Split(last.key_path)).value

----------------------------------------------------------------------------
(* Claims about the database connector, checked under SpecDb *)

\* an attempt of connect that meets an authentication or account error (a
\* DatabaseError whose message says so) or an interface error that is
\* neither a network nor a timeout error
FatalConnectError(o) ==
    \/ o.error.class = "DatabaseError"
            /\ ("authentication" \in o.error.words \/ "account" \in o.error.words)
    \/ o.error.class = "InterfaceError"
            /\ "network" \notin o.error.words /\ "timeout" \notin o.error.words

QueryEvents ==
    {i \in DOMAIN db_call.events : db_call.events[i].ev = "execute_query"}

\* execute_query met a compilation error (errno 2003) or a timeout
CompilationOrTimeout(e) ==
    /\ e.class = "ProgrammingError"
    /\ e.errno = COMPILATION_ERRNO \/ "timeout" \in e.words

\* C30: execute_query_with_retry calls execute_query at most max_retries + 1
\* times; a compilation error or a timeout ends the call with that error at
\* the pass that met it; a pass that lost the connection and is followed by
\* another is followed by a reconnect first; the call returns the rows of
\* the pass that succeeded or, every pass having failed, raises the error of
\* the last one.
C30_RetryContract ==
    db_call.op = "execute_query_with_retry" =>
        LET ev == db_call.events
        IN  /\ Cardinality(QueryEvents) <= db_call.max_retries + 1
            /\ \A i \in QueryEvents :
                    CompilationOrTimeout(ev[i].met) =>
                        /\ i = Len(ev)
                        /\ db_call.pc = "idle"
                        /\ db_call.exc = "DatabaseQueryError"
                        /\ db_call.msg = ev[i].msg
            /\ \A i \in QueryEvents :
                    (/\ ev[i].exc = "DatabaseConnectionError"
                     /\ \E j \in QueryEvents : j > i)
                        => ev[i + 1].ev = "connect"
            /\ (db_call.pc = "idle" /\ ev # <<>>) =>
                    /\ Len(ev) \in QueryEvents
                    /\ \A i \in QueryEvents : i < Len(ev) => ev[i].exc # "none"
                    /\ IF ev[Len(ev)].exc = "none"
                       THEN db_call.ret = "rows" /\ db_call.exc = "none"
                       ELSE /\ db_call.ret = "none"
                            /\ db_call.exc = ev[Len(ev)].exc
                            /\ db_call.msg = ev[Len(ev)].msg
            /\ (db_call.pc = "idle") => ev # <<>>

\* the first pass loses the connection, the reconnect succeeds, the second
\* pass returns the rows
C30_Witness ==
    /\ db_call.op = "execute_query_with_retry"
    /\ db_call.pc = "idle"
    /\ db_call.ret = "rows"
    /\ Len(db_call.events) = 3
    /\ db_call.events[1].ev = "execute_query"
    /\ db_call.events[1].exc = "DatabaseConnectionError"
    /\ db_call.events[1].met.class = "InterfaceError"
    /\ db_call.events[2].ev = "connect"
    /\ db_call.events[2].exc = "none"
    /\ db_call.events[3].exc = "none"

====
